---- MODULE Spec2Model ----
(***************************************************************************)
(* Event detection of thunderfish (thunderfish/eventdetection.py):         *)
(* detect_peaks() with its helpers detect_peaks_fixed() and                *)
(* detect_peaks_array(), detect_dynamic_peaks(), the event algebra trim(), *)
(* trim_to_peak(), trim_closest(), merge_events(), remove_events() and     *)
(* widen_events(), threshold_crossings(), the entry of peak_width() and    *)
(* peak_size_width(), and the threshold estimators.                        *)
(*                                                                         *)
(* Samples, thresholds and event positions are integers.  Python indices   *)
(* are kept 0-based: At(s, i) is s[i].  The decaying threshold of          *)
(* detect_dynamic_peaks() is an exact fraction <<numerator, denominator>>. *)
(***************************************************************************)
EXTENDS Integers, Sequences, FiniteSets, TLC

VARIABLES
    data,        \* detect_peaks: the data argument
    threshold,   \* detect_peaks: the threshold argument, scalar or array
    pc,          \* detect_peaks: "call", "scan", "done" or "error"
    err,         \* detect_peaks: the exception that ended the call
    scan,        \* detect_peaks_fixed/_array: the locals of the scan
    args,        \* detect_dynamic_peaks: the arguments of the call
    dpc,         \* detect_dynamic_peaks: "call", "decay", "compare", "done", "error"
    derr,        \* detect_dynamic_peaks: the exception that ended the call
    dyn,         \* detect_dynamic_peaks: the locals of the scan
    call,        \* detect_dynamic_peaks: the evaluator call of the last sample
    onsets,      \* merge_events: the onsets argument
    offsets,     \* merge_events: the offsets argument
    min_distance,    \* merge_events: the min_distance argument
    epc,         \* merge_events: "call", "merged" or "remerged"
    merged_onsets,   \* merge_events: the returned onsets
    merged_offsets,  \* merge_events: the returned offsets
    remerged,    \* what merge_events returns for its own result
    func,        \* the name of the other function that is called
    params,      \* the arguments of that call
    cpc,         \* that call: "call", "done" or "error"
    locals,      \* the local variables of that call while it runs
    returned,    \* what that call returns
    raised       \* the exception that ended that call

peakVars == <<data, threshold, pc, err, scan>>

dynVars == <<args, dpc, derr, dyn, call>>

eventVars == <<onsets, offsets, min_distance, epc,
               merged_onsets, merged_offsets, remerged>>

callVars == <<func, params, cpc, locals, returned, raised>>

vars == <<data, threshold, pc, err, scan, args, dpc, derr, dyn, call,
          onsets, offsets, min_distance, epc,
          merged_onsets, merged_offsets, remerged,
          func, params, cpc, locals, returned, raised>>

----------------------------------------------------------------------------
(* Bounds of the model. *)

MaxLen == 5       \* longest data array of detect_peaks
MaxVal == 3       \* samples are 0..MaxVal
MaxThrLen == 2    \* longest threshold array

----------------------------------------------------------------------------
(* Helpers. *)

At(s, i) == s[i + 1]

SeqsUpTo(S, n) == UNION {[1..k -> S] : k \in 0..n}

Range(s) == {s[k] : k \in 1..Len(s)}

NoError == [type |-> "none", line |-> 0]

Raise(type, line) == [type |-> type, line |-> line]

----------------------------------------------------------------------------
(* detect_peaks(): the arguments. *)

ScalarThresholds == -1..(MaxVal + 1)

ArrayThresholdValues == {0, 1, 2}

Scalar(v) == [kind |-> "scalar", val |-> v]

Array(s) == [kind |-> "array", val |-> s]

isscalar(thr) == thr.kind = "scalar"

Thresholds ==
    {Scalar(v) : v \in ScalarThresholds}
        \cup {Array(s) : s \in SeqsUpTo(ArrayThresholdValues, MaxThrLen)}

DataArrays == SeqsUpTo(0..MaxVal, MaxLen)

\* np.min(threshold) <= 0, defined for a non-empty array only
MinNotPositive(s) == \E k \in 1..Len(s) : s[k] <= 0

\* ThresholdError with the values of the array checked before its length
ThresholdError_ValuesFirst(d, thr) ==
    IF isscalar(thr)
    THEN IF thr.val <= 0 THEN Raise("ValueError", 89) ELSE NoError
    ELSE IF Len(thr.val) = 0 THEN Raise("ValueError", 94)
         ELSE IF MinNotPositive(thr.val) THEN Raise("ValueError", 95)
         ELSE IF Len(d) # Len(thr.val) THEN Raise("IndexError", 93)
         ELSE NoError

\* The exception detect_peaks() raises before it calls a helper, or NoError.
ThresholdError(d, thr) ==
    IF isscalar(thr)
    THEN IF thr.val <= 0 THEN Raise("ValueError", 89) ELSE NoError
    ELSE IF Len(d) # Len(thr.val) THEN Raise("IndexError", 93)
         ELSE IF Len(thr.val) = 0 THEN Raise("ValueError", 94)
         ELSE IF MinNotPositive(thr.val) THEN Raise("ValueError", 95)
         ELSE NoError

----------------------------------------------------------------------------
(* detect_peaks_fixed() / detect_peaks_array(): one pass over the data. *)

Idle == [direction |-> 0, min_inx |-> 0, max_inx |-> 0,
         min_value |-> 0, max_value |-> 0,
         peaks |-> <<>>, troughs |-> <<>>, index |-> 0]

\* the locals after the initialisation in front of the loop
ScanInit(d) ==
    [direction |-> 0, min_inx |-> 0, max_inx |-> 0,
     min_value |-> At(d, 0), max_value |-> At(d, 0),
     peaks |-> <<>>, troughs |-> <<>>, index |-> 0]

\* The samples and thresholds are 64-bit floats.  A number is written
\* hi*Huge + lo for hi*2^53 + lo, with lo of an absolute value below Huge/2:
\* Huge stands for 2^53, from where on not every whole number is a float.
Huge == 1000

\* x rounded to the nearest multiple of spacing, a tie to the even multiple
RoundToEven(x, spacing) ==
    LET q == x \div spacing
        r == x - q * spacing
    IN  IF 2 * r < spacing THEN q * spacing
        ELSE IF 2 * r > spacing THEN (q + 1) * spacing
        ELSE IF q % 2 = 0 THEN q * spacing ELSE (q + 1) * spacing

\* the distance of the floats around hi*2^53 + lo for hi of 1, 2 or 3
Spacing(hi, lo) ==
    IF hi = 1 THEN (IF lo < 0 THEN 1 ELSE 2)
    ELSE IF hi = 2 THEN (IF lo < 0 THEN 2 ELSE 4)
    ELSE 4

\* the float that the result x >= 0 of a sum or a difference is rounded to
\* (round to nearest, ties to even): whole numbers below 2^53 are exact
RoundedUp(x) ==
    LET hi == (x + Huge \div 2) \div Huge
        lo == x - hi * Huge
    IN  IF hi = 0 THEN x
        ELSE hi * Huge + RoundToEven(lo, Spacing(hi, lo))

\* the float a sum or a difference x is rounded to
Double(x) == IF x < 0 THEN -RoundedUp(-x) ELSE RoundedUp(x)

\* FallsBelow without the threshold: any sample below the maximum ends a peak
FallsBelow_NoThreshold(value, max_value, thr) == value < max_value

\* value <= max_value - threshold
FallsBelow(value, max_value, thr) == value <= Double(max_value - thr)

\* value >= min_value + threshold
RisesAbove(value, min_value, thr) == value >= Double(min_value + thr)

\* Rising with a sample as large as the maximum taken for the new maximum
Rising_LastMaximum(s, index, value, thr) ==
    IF value >= s.max_value
    THEN [s EXCEPT !.max_inx = index, !.max_value = value]
    ELSE IF FallsBelow(value, s.max_value, thr)
         THEN [s EXCEPT !.peaks = Append(@, s.max_inx),
                        !.direction = -1,
                        !.min_inx = index, !.min_value = value]
         ELSE s

\* Rising without the change of direction after a peak
Rising_KeepsDirection(s, index, value, thr) ==
    IF value > s.max_value
    THEN [s EXCEPT !.max_inx = index, !.max_value = value]
    ELSE IF FallsBelow(value, s.max_value, thr)
         THEN [s EXCEPT !.peaks = Append(@, s.max_inx),
                        !.min_inx = index, !.min_value = value]
         ELSE s

\* the branch direction > 0
Rising(s, index, value, thr) ==
    IF value > s.max_value
    THEN [s EXCEPT !.max_inx = index, !.max_value = value]
    ELSE IF FallsBelow(value, s.max_value, thr)
         THEN [s EXCEPT !.peaks = Append(@, s.max_inx),
                        !.direction = -1,
                        !.min_inx = index, !.min_value = value]
         ELSE s

\* Falling without the change of direction after a trough
Falling_KeepsDirection(s, index, value, thr) ==
    IF value < s.min_value
    THEN [s EXCEPT !.min_inx = index, !.min_value = value]
    ELSE IF RisesAbove(value, s.min_value, thr)
         THEN [s EXCEPT !.troughs = Append(@, s.min_inx),
                        !.max_inx = index, !.max_value = value]
         ELSE s

\* the branch direction < 0
Falling(s, index, value, thr) ==
    IF value < s.min_value
    THEN [s EXCEPT !.min_inx = index, !.min_value = value]
    ELSE IF RisesAbove(value, s.min_value, thr)
         THEN [s EXCEPT !.troughs = Append(@, s.min_inx),
                        !.direction = 1,
                        !.max_inx = index, !.max_value = value]
         ELSE s

\* Undecided that sets the direction but leaves the extremes as they are
Undecided_KeepsExtremes(s, index, value, thr) ==
    LET dir == IF FallsBelow(value, s.max_value, thr) THEN -1
               ELSE IF RisesAbove(value, s.min_value, thr) THEN 1
               ELSE s.direction
    IN  IF dir # s.direction
        THEN [s EXCEPT !.direction = dir]
        ELSE IF value > s.max_value
             THEN [s EXCEPT !.max_inx = index, !.max_value = value]
             ELSE IF value < s.min_value
                  THEN [s EXCEPT !.min_inx = index, !.min_value = value]
                  ELSE s

\* the branch of the direction not known yet
Undecided(s, index, value, thr) ==
    LET dir == IF FallsBelow(value, s.max_value, thr) THEN -1
               ELSE IF RisesAbove(value, s.min_value, thr) THEN 1
               ELSE s.direction
        s1 == [s EXCEPT !.direction = dir]
    IN  IF value > s.max_value
        THEN [s1 EXCEPT !.max_inx = index, !.max_value = value]
        ELSE IF value < s.min_value
             THEN [s1 EXCEPT !.min_inx = index, !.min_value = value]
             ELSE s1

\* the body of the loop for one sample
LoopBody(s, index, value, thr) ==
    IF s.direction > 0 THEN Rising(s, index, value, thr)
    ELSE IF s.direction < 0 THEN Falling(s, index, value, thr)
    ELSE Undecided(s, index, value, thr)

\* the threshold the comparison of sample index uses
ThresholdAt(thr, index) ==
    IF isscalar(thr) THEN thr.val ELSE At(thr.val, index)

----------------------------------------------------------------------------
(* The variables of a function that is not called in a behaviour. *)

PeaksNotCalled ==
    /\ data = <<>>
    /\ threshold = Scalar(1)
    /\ pc = "idle"
    /\ err = NoError
    /\ scan = Idle

DynNotCalled ==
    /\ args = [data |-> <<>>]
    /\ dpc = "idle"
    /\ derr = NoError
    /\ dyn = <<>>
    /\ call = <<>>

EventsNotCalled ==
    /\ onsets = <<>>
    /\ offsets = <<>>
    /\ min_distance = 0
    /\ epc = "idle"
    /\ merged_onsets = <<>>
    /\ merged_offsets = <<>>
    /\ remerged = <<>>

NothingCalled ==
    /\ func = "none"
    /\ params = <<>>
    /\ cpc = "idle"
    /\ locals = <<>>
    /\ returned = <<>>
    /\ raised = NoError

----------------------------------------------------------------------------
(* The call of detect_peaks() as a state machine. *)

\* the example of one pulse: 1000 samples that are zero except for a triangle
\* of slope 1 with its apex of 10 at index 500, and a threshold of 5
PulseScenario ==
    [data |-> [k \in 1..1000 |->
                  IF k - 1 <= 500
                  THEN IF k - 1 < 490 THEN 0 ELSE k - 1 - 490
                  ELSE IF k - 1 > 510 THEN 0 ELSE 510 - (k - 1)],
     threshold |-> Scalar(5)]

Init ==
    /\ \/ data \in DataArrays /\ threshold \in Thresholds
       \/ data = PulseScenario.data /\ threshold = PulseScenario.threshold
    /\ pc = "call"
    /\ err = NoError
    /\ scan = Idle
    /\ DynNotCalled
    /\ EventsNotCalled
    /\ NothingCalled

\* detect_peaks() rejects the threshold
DetectPeaksRaise ==
    /\ pc = "call"
    /\ ThresholdError(data, threshold) # NoError
    /\ pc' = "error"
    /\ err' = ThresholdError(data, threshold)
    /\ UNCHANGED <<data, threshold, scan>>
    /\ UNCHANGED <<dynVars, eventVars, callVars>>

\* detect_peaks() accepts the threshold and the helper initialises its scan
DetectPeaksEnter ==
    /\ pc = "call"
    /\ ThresholdError(data, threshold) = NoError
    /\ Len(data) > 0
    /\ pc' = "scan"
    /\ scan' = ScanInit(data)
    /\ UNCHANGED <<data, threshold, err>>
    /\ UNCHANGED <<dynVars, eventVars, callVars>>

\* data[0] of an empty array: an IndexError in plain Python; compiled by
\* numba the read is unchecked, the loop has no iteration and two empty
\* lists are returned
DetectPeaksEmpty ==
    /\ pc = "call"
    /\ ThresholdError(data, threshold) = NoError
    /\ Len(data) = 0
    /\ \/ pc' = "error" /\ err' = Raise("IndexError", 127)
       \/ pc' = "done" /\ err' = err
    /\ UNCHANGED <<data, threshold, scan>>
    /\ UNCHANGED <<dynVars, eventVars, callVars>>

\* one iteration of  for index, value in enumerate(data)
ScanSample ==
    /\ pc = "scan"
    /\ scan.index < Len(data)
    /\ scan' = [LoopBody(scan, scan.index, At(data, scan.index),
                         ThresholdAt(threshold, scan.index))
                    EXCEPT !.index = scan.index + 1]
    /\ UNCHANGED <<data, threshold, pc, err>>
    /\ UNCHANGED <<dynVars, eventVars, callVars>>

\* the loop is exhausted: return peaks, troughs
ScanReturn ==
    /\ pc = "scan"
    /\ scan.index = Len(data)
    /\ pc' = "done"
    /\ UNCHANGED <<data, threshold, err, scan>>
    /\ UNCHANGED <<dynVars, eventVars, callVars>>

Next ==
    \/ DetectPeaksRaise
    \/ DetectPeaksEnter
    \/ DetectPeaksEmpty
    \/ ScanSample
    \/ ScanReturn

Spec == Init /\ [][Next]_vars

----------------------------------------------------------------------------
(* Properties of detect_peaks(). *)

Returned == pc = "done"

PeakSet == Range(scan.peaks)

TroughSet == Range(scan.troughs)

StrictlyBetween(S, a, b) == {x \in S : a < x /\ x < b}

StrictlyAscending(s) == \A k \in 1..(Len(s) - 1) : s[k] < s[k + 1]

\* P and T strictly alternate in index order
Alternate(P, T) ==
    /\ Range(P) \cap Range(T) = {}
    /\ \A k \in 1..(Len(P) - 1) :
           Cardinality(StrictlyBetween(Range(T), P[k], P[k + 1])) = 1
    /\ \A k \in 1..(Len(T) - 1) :
           Cardinality(StrictlyBetween(Range(P), T[k], T[k + 1])) = 1
    /\ Len(P) - Len(T) \in {-1, 0, 1}

\* C1: for non-empty data and a positive scalar threshold the returned peaks
\* and troughs strictly alternate in index order: exactly one trough between
\* two consecutive peaks, exactly one peak between two consecutive troughs,
\* and the two counts differ by at most one.
C1_PeaksTroughsAlternate ==
    (Returned /\ Len(data) > 0 /\ isscalar(threshold))
        => Alternate(scan.peaks, scan.troughs)

C1_Witness ==
    /\ Returned
    /\ isscalar(threshold)
    /\ Len(scan.peaks) >= 2
    /\ Len(scan.troughs) >= 1

\* C2: for non-empty data and a positive scalar threshold each returned list
\* is strictly ascending, holds valid indices of data only and has at most
\* len(data) entries.
C2_IndicesAscendingValid ==
    (Returned /\ Len(data) > 0 /\ isscalar(threshold))
        => /\ StrictlyAscending(scan.peaks)
           /\ StrictlyAscending(scan.troughs)
           /\ PeakSet \subseteq 0..(Len(data) - 1)
           /\ TroughSet \subseteq 0..(Len(data) - 1)
           /\ Len(scan.peaks) <= Len(data)
           /\ Len(scan.troughs) <= Len(data)

C2_Witness ==
    /\ Returned
    /\ isscalar(threshold)
    /\ Len(scan.troughs) >= 2
    /\ Len(scan.peaks) >= 1

\* a peak p and a trough t with no other event between them
Neighbours(p, t) ==
    /\ p \in PeakSet
    /\ t \in TroughSet
    /\ StrictlyBetween(PeakSet \cup TroughSet, p, t) = {}
    /\ StrictlyBetween(PeakSet \cup TroughSet, t, p) = {}

NotPositive(thr) ==
    IF isscalar(thr) THEN thr.val <= 0
    ELSE \E k \in 1..Len(thr.val) : thr.val[k] <= 0

LengthMismatch(d, thr) == ~isscalar(thr) /\ Len(thr.val) # Len(d)

\* the call ended with an exception of this type, raised by the checks of
\* detect_peaks(), with no sample scanned and nothing returned
FailedEarly(type) ==
    /\ pc = "error"
    /\ err.type = type
    /\ err.line \in 87..96
    /\ scan = Idle

NoThresholdError == ~(pc = "error" /\ err.line \in 87..96)

\* C4 as stated: ValueError whenever the scalar or any element of the array
\* is <= 0, IndexError whenever the array length differs, no such error for
\* every other threshold.
C4_AsStated ==
    pc # "call" =>
        /\ NotPositive(threshold) => FailedEarly("ValueError")
        /\ LengthMismatch(data, threshold) => FailedEarly("IndexError")
        /\ (~NotPositive(threshold) /\ ~LengthMismatch(data, threshold))
               => NoThresholdError

\* C4: detect_peaks() fails before it scans a sample: with a ValueError when
\* a scalar threshold is <= 0 or when a threshold array as long as data is
\* empty or has an element <= 0, and with an IndexError when the length of a
\* threshold array differs from len(data), whatever its elements; for every
\* other threshold no such error is raised.
C4_ThresholdErrors ==
    pc # "call" =>
        /\ (isscalar(threshold) /\ threshold.val <= 0)
               => FailedEarly("ValueError")
        /\ LengthMismatch(data, threshold) => FailedEarly("IndexError")
        /\ (/\ ~isscalar(threshold)
            /\ ~LengthMismatch(data, threshold)
            /\ (NotPositive(threshold) \/ Len(threshold.val) = 0))
               => FailedEarly("ValueError")
        /\ (/\ ~LengthMismatch(data, threshold)
            /\ ~NotPositive(threshold)
            /\ (isscalar(threshold) \/ Len(threshold.val) > 0))
               => NoThresholdError

C4_Witness ==
    /\ pc = "error"
    /\ LengthMismatch(data, threshold)
    /\ NotPositive(threshold)
    /\ err.type = "IndexError"

----------------------------------------------------------------------------
(* Exact arithmetic for the threshold of detect_dynamic_peaks(): a number  *)
(* is a fraction <<numerator, denominator>> in lowest terms, with a        *)
(* positive denominator.                                                   *)

Abs(x) == IF x < 0 THEN -x ELSE x

RECURSIVE GCD(_, _)
GCD(a, b) == IF b = 0 THEN a ELSE GCD(b, a % b)

Frac(n, d) == LET g == GCD(Abs(n), d) IN <<n \div g, d \div g>>

Whole(n) == <<n, 1>>

FAdd(a, b) == Frac(a[1] * b[2] + b[1] * a[2], a[2] * b[2])

FSub(a, b) == Frac(a[1] * b[2] - b[1] * a[2], a[2] * b[2])

FMul(a, b) == Frac(a[1] * b[1], a[2] * b[2])

\* a / b for b > 0
FDiv(a, b) == Frac(a[1] * b[2], a[2] * b[1])

FLess(a, b) == a[1] * b[2] < b[1] * a[2]

FLeq(a, b) == a[1] * b[2] <= b[1] * a[2]

\* an optional value: None or Some(x)
None == <<>>

Some(x) == <<x>>

Value(o) == o[1]

----------------------------------------------------------------------------
(* detect_dynamic_peaks(): the arguments. *)

MaxDynLen == 3    \* longest data array of detect_dynamic_peaks
MaxDynVal == 2    \* its samples are 0..MaxDynVal
MaxTime == 2      \* the values of the time array are 0..MaxTime

Ascending(s) == \A k \in 1..(Len(s) - 1) : s[k] < s[k + 1]

TimeArrays == {t \in SeqsUpTo(0..MaxTime, MaxTime + 1) : Ascending(t)}

DynThresholds == {Whole(-1), Whole(0), Whole(1), Whole(2), Whole(3)}

MinThresholds == {Whole(0), Whole(1), Whole(2)}

TimeConstants == {Whole(0), <<1, 2>>, Whole(1), Whole(2)}

\* signals of four samples under a threshold that starts far above them and
\* decays slowly, with both evaluators
SlowDecay ==
    [data : [1..4 -> {1, 3}],
     threshold : {Whole(6)},
     min_thresh : {Whole(1)},
     tau : {Whole(2)},
     time : {None},
     check_peak_func : {TRUE},
     check_trough_func : {TRUE}]

\* signals with samples and a threshold that cannot decay of 2^53, from
\* where on sums are rounded
HugeSignals ==
    [data : SeqsUpTo({0, 1, Huge}, MaxDynLen),
     threshold : {Whole(Huge)},
     min_thresh : {Whole(Huge)},
     tau : {Whole(1), Whole(2)},
     time : {None},
     check_peak_func : {FALSE},
     check_trough_func : {FALSE}]

DynArguments ==
    [data : SeqsUpTo(0..MaxDynVal, MaxDynLen),
     threshold : DynThresholds,
     min_thresh : MinThresholds,
     tau : TimeConstants,
     time : {None} \cup {Some(t) : t \in TimeArrays},
     check_peak_func : BOOLEAN,
     check_trough_func : BOOLEAN]
        \cup SlowDecay \cup HugeSignals

\* the replacement thresholds an evaluator returns
EvaluatorThresholds == {<<1, 2>>, Whole(3)}

\* what an evaluator can return for the candidate event_inx: r is None or a
\* value to append, th is None or a new threshold
EvaluatorResults(event_inx) ==
    [r : {None, Some(event_inx)},
     th : {None} \cup {Some(th) : th \in EvaluatorThresholds}]

NoResult == [r |-> None, th |-> None]

NoCall == [func |-> "none"]

\* ArgumentError without the check of min_thresh
ArgumentError_MinThreshUnchecked(a) ==
    IF FLeq(a.threshold, Whole(0)) THEN Raise("ValueError", 1161)
    ELSE IF FLeq(a.tau, Whole(0)) THEN Raise("ValueError", 1165)
    ELSE IF a.time # None /\ Len(a.data) # Len(Value(a.time))
         THEN Raise("IndexError", 1167)
    ELSE NoError

\* the exception detect_dynamic_peaks() raises at its entry, or NoError
ArgumentError(a) ==
    IF FLeq(a.threshold, Whole(0)) THEN Raise("ValueError", 1161)
    ELSE IF FLeq(a.min_thresh, Whole(0)) THEN Raise("ValueError", 1163)
    ELSE IF FLeq(a.tau, Whole(0)) THEN Raise("ValueError", 1165)
    ELSE IF a.time # None /\ Len(a.data) # Len(Value(a.time))
         THEN Raise("IndexError", 1167)
    ELSE NoError

----------------------------------------------------------------------------
(* detect_dynamic_peaks(): one pass over the data. *)

DynIdle == [direction |-> 0, min_inx |-> 0, max_inx |-> 0,
            min_value |-> 0, max_value |-> 0, threshold |-> Whole(0),
            peaks_list |-> <<>>, troughs_list |-> <<>>, index |-> 0]

\* the locals after the initialisation in front of the loop
DynInit(a) ==
    [direction |-> 0, min_inx |-> 0, max_inx |-> 0,
     min_value |-> At(a.data, 0), max_value |-> At(a.data, 0),
     threshold |-> a.threshold,
     peaks_list |-> <<>>, troughs_list |-> <<>>, index |-> 0]

\* s[i] of Python: a negative index counts from the end
PyAt(s, i) == IF i < 0 THEN s[Len(s) + i + 1] ELSE s[i + 1]

\* time[idx + 1] - time[idx], the last sample reusing the interval before it
TimeStep(time, index, n) ==
    LET idx == IF index + 1 >= n THEN n - 2 ELSE index
    IN  PyAt(time, idx + 1) - PyAt(time, idx)

\* threshold += (min_thresh - threshold) / tau
DecayByIndex(thr, min_thresh, tau) ==
    FAdd(thr, FDiv(FSub(min_thresh, thr), tau))

\* threshold += (min_thresh - threshold) * (time[idx + 1] - time[idx]) / tau
DecayByTime(thr, min_thresh, tau, dt) ==
    FAdd(thr, FDiv(FMul(FSub(min_thresh, thr), Whole(dt)), tau))

\* the threshold after the decay in front of the comparisons of sample index
Decayed(s, a) ==
    IF a.time = None
    THEN DecayByIndex(s.threshold, a.min_thresh, a.tau)
    ELSE DecayByTime(s.threshold, a.min_thresh, a.tau,
                     TimeStep(Value(a.time), s.index, Len(a.data)))

\* the float a sum x is rounded to: the fractions of the scan are numbers of
\* few binary digits far below 2^53, which are exact
DoubleSum(x) == IF x[2] = 1 THEN Whole(Double(x[1])) ELSE x

\* DynFallsBelow with the sample strictly below the maximum less the threshold
DynFallsBelow_Strictly(value, max_value, thr) ==
    FLess(DoubleSum(FAdd(Whole(value), thr)), Whole(max_value))

\* max_value >= value + threshold
DynFallsBelow(value, max_value, thr) ==
    FLeq(DoubleSum(FAdd(Whole(value), thr)), Whole(max_value))

\* value >= min_value + threshold
DynRisesAbove(value, min_value, thr) ==
    FLeq(DoubleSum(FAdd(Whole(min_value), thr)), Whole(value))

\* a threshold returned by an evaluator is not taken below min_thresh
Clamp(th, min_thresh) == IF FLess(th, min_thresh) THEN min_thresh ELSE th

\* the threshold after an evaluator returned th
Rethreshold(thr, th, min_thresh) ==
    IF th # None THEN Clamp(Value(th), min_thresh) ELSE thr

\* the list after an evaluator returned r
Commit(list, r) == IF r # None THEN Append(list, Value(r)) ELSE list

\* the event committed without an evaluator
Event(a, inx) == IF a.time = None THEN inx ELSE At(Value(a.time), inx)

\* DynRising with a rejected peak leaving the direction and the extrema alone
DynRising_RejectedStays(s, a, index, value, res) ==
    IF value > s.max_value
    THEN [s EXCEPT !.max_inx = index, !.max_value = value]
    ELSE IF DynFallsBelow(value, s.max_value, s.threshold)
         THEN IF a.check_peak_func /\ res.r = None
              THEN [s EXCEPT !.threshold =
                                 Rethreshold(@, res.th, a.min_thresh)]
              ELSE LET s1 == IF a.check_peak_func
                             THEN [s EXCEPT
                                      !.peaks_list = Commit(@, res.r),
                                      !.threshold =
                                          Rethreshold(@, res.th, a.min_thresh)]
                             ELSE [s EXCEPT
                                      !.peaks_list =
                                          Append(@, Event(a, s.max_inx))]
                   IN  [s1 EXCEPT !.min_inx = index, !.min_value = value,
                                  !.direction = -1]
         ELSE s

\* the branch direction > 0; res is what check_peak_func returns if called
DynRising(s, a, index, value, res) ==
    IF value > s.max_value
    THEN [s EXCEPT !.max_inx = index, !.max_value = value]
    ELSE IF DynFallsBelow(value, s.max_value, s.threshold)
         THEN LET s1 == IF a.check_peak_func
                        THEN [s EXCEPT
                                 !.peaks_list = Commit(@, res.r),
                                 !.threshold =
                                     Rethreshold(@, res.th, a.min_thresh)]
                        ELSE [s EXCEPT
                                 !.peaks_list = Append(@, Event(a, s.max_inx))]
              IN  [s1 EXCEPT !.min_inx = index, !.min_value = value,
                             !.direction = -1]
         ELSE s

\* the branch direction < 0; res is what check_trough_func returns if called
DynFalling(s, a, index, value, res) ==
    IF value < s.min_value
    THEN [s EXCEPT !.min_inx = index, !.min_value = value]
    ELSE IF DynRisesAbove(value, s.min_value, s.threshold)
         THEN LET s1 == IF a.check_trough_func
                        THEN [s EXCEPT
                                 !.troughs_list = Commit(@, res.r),
                                 !.threshold =
                                     Rethreshold(@, res.th, a.min_thresh)]
                        ELSE [s EXCEPT
                                 !.troughs_list =
                                     Append(@, Event(a, s.min_inx))]
              IN  [s1 EXCEPT !.max_inx = index, !.max_value = value,
                             !.direction = 1]
         ELSE s

\* the branch of the direction not known yet
DynUndecided(s, index, value) ==
    LET dir == IF DynFallsBelow(value, s.max_value, s.threshold) THEN -1
               ELSE IF DynRisesAbove(value, s.min_value, s.threshold) THEN 1
               ELSE s.direction
        s1 == [s EXCEPT !.direction = dir]
    IN  IF s.max_value < value
        THEN [s1 EXCEPT !.max_inx = index, !.max_value = value]
        ELSE IF value < s.min_value
             THEN [s1 EXCEPT !.min_inx = index, !.min_value = value]
             ELSE s1

\* the comparisons of the loop body for one sample, after the decay
DynLoopBody(s, a, index, value, res) ==
    IF s.direction > 0 THEN DynRising(s, a, index, value, res)
    ELSE IF s.direction < 0 THEN DynFalling(s, a, index, value, res)
    ELSE DynUndecided(s, index, value)

\* the sample ends a peak / a trough
PeakCandidate(s, value) ==
    /\ s.direction > 0
    /\ ~(value > s.max_value)
    /\ DynFallsBelow(value, s.max_value, s.threshold)

TroughCandidate(s, value) ==
    /\ s.direction < 0
    /\ ~(value < s.min_value)
    /\ DynRisesAbove(value, s.min_value, s.threshold)

\* the call of an evaluator the sample causes, with what it returned
EvaluatorCall(s, a, index, value, res) ==
    IF PeakCandidate(s, value) /\ a.check_peak_func
    THEN [func |-> "check_peak_func", event_inx |-> s.max_inx,
          index |-> index, prev_inx |-> s.min_inx,
          threshold |-> s.threshold, r |-> res.r, th |-> res.th]
    ELSE IF TroughCandidate(s, value) /\ a.check_trough_func
    THEN [func |-> "check_trough_func", event_inx |-> s.min_inx,
          index |-> index, prev_inx |-> s.max_inx,
          threshold |-> s.threshold, r |-> res.r, th |-> res.th]
    ELSE NoCall

\* what the evaluator called for the sample, if any, can return
Returns(s, a, value) ==
    IF PeakCandidate(s, value) /\ a.check_peak_func
    THEN EvaluatorResults(s.max_inx)
    ELSE IF TroughCandidate(s, value) /\ a.check_trough_func
    THEN EvaluatorResults(s.min_inx)
    ELSE {NoResult}

----------------------------------------------------------------------------
(* The call of detect_dynamic_peaks() as a state machine. *)

InitDyn ==
    /\ args \in DynArguments
    /\ dpc = "call"
    /\ derr = NoError
    /\ dyn = DynIdle
    /\ call = NoCall
    /\ PeaksNotCalled
    /\ EventsNotCalled
    /\ NothingCalled

\* an argument is rejected at the entry
DynRaise ==
    /\ dpc = "call"
    /\ ArgumentError(args) # NoError
    /\ dpc' = "error"
    /\ derr' = ArgumentError(args)
    /\ UNCHANGED <<args, dyn, call>>
    /\ UNCHANGED <<peakVars, eventVars, callVars>>

\* the arguments are accepted and the scan is initialised
DynEnter ==
    /\ dpc = "call"
    /\ ArgumentError(args) = NoError
    /\ Len(args.data) > 0
    /\ dpc' = "decay"
    /\ dyn' = DynInit(args)
    /\ UNCHANGED <<args, derr, call>>
    /\ UNCHANGED <<peakVars, eventVars, callVars>>

\* data[0] of an empty array
DynEmpty ==
    /\ dpc = "call"
    /\ ArgumentError(args) = NoError
    /\ Len(args.data) = 0
    /\ dpc' = "error"
    /\ derr' = Raise("IndexError", 1176)
    /\ UNCHANGED <<args, dyn, call>>
    /\ UNCHANGED <<peakVars, eventVars, callVars>>

\* the head of an iteration: the threshold decays
DynDecay ==
    /\ dpc = "decay"
    /\ dyn.index < Len(args.data)
    /\ dyn' = [dyn EXCEPT !.threshold = Decayed(dyn, args)]
    /\ dpc' = "compare"
    /\ UNCHANGED <<args, derr, call>>
    /\ UNCHANGED <<peakVars, eventVars, callVars>>

\* the rest of the iteration: the sample is compared with the running
\* extrema and an evaluator is called for a candidate
DynCompare ==
    /\ dpc = "compare"
    /\ LET value == At(args.data, dyn.index)
       IN  \E res \in Returns(dyn, args, value) :
               /\ dyn' = [DynLoopBody(dyn, args, dyn.index, value, res)
                              EXCEPT !.index = dyn.index + 1]
               /\ call' = EvaluatorCall(dyn, args, dyn.index, value, res)
    /\ dpc' = "decay"
    /\ UNCHANGED <<args, derr>>
    /\ UNCHANGED <<peakVars, eventVars, callVars>>

\* the loop is exhausted: return peaks_list, troughs_list
DynReturn ==
    /\ dpc = "decay"
    /\ dyn.index = Len(args.data)
    /\ dpc' = "done"
    /\ UNCHANGED <<args, derr, dyn, call>>
    /\ UNCHANGED <<peakVars, eventVars, callVars>>

NextDyn ==
    \/ DynRaise
    \/ DynEnter
    \/ DynEmpty
    \/ DynDecay
    \/ DynCompare
    \/ DynReturn

SpecDyn == InitDyn /\ [][NextDyn]_vars

----------------------------------------------------------------------------
(* Properties of detect_dynamic_peaks(). *)

\* C5: in every scan with threshold > 0, min_thresh > 0 and tau > 0, with
\* or without evaluators, the threshold is never below min_thresh when a
\* sample is compared with a running extremum.
C5_ThresholdNeverBelowMinThresh ==
    dpc = "compare" => ~FLess(dyn.threshold, args.min_thresh)

\* the step compares a sample, calls an evaluator and the evaluator rejects
Rejected ==
    /\ dpc = "compare"
    /\ dyn'.index = dyn.index + 1
    /\ call'.func # "none"
    /\ call'.r = None

NothingAppended ==
    /\ dyn'.peaks_list = dyn.peaks_list
    /\ dyn'.troughs_list = dyn.troughs_list

\* C6 as stated: after a rejected candidate nothing is appended and the
\* direction and the running extrema are what they were before it.
C6_AsStated ==
    [][Rejected =>
          /\ NothingAppended
          /\ dyn'.direction = dyn.direction
          /\ dyn'.max_inx = dyn.max_inx
          /\ dyn'.max_value = dyn.max_value
          /\ dyn'.min_inx = dyn.min_inx
          /\ dyn'.min_value = dyn.min_value]_vars

\* C6: when the evaluator returns None for a candidate nothing is appended
\* to the result lists, but the scan changes direction as for an accepted
\* candidate: the direction flips and the opposite running extremum
\* restarts at the current sample, the extremum of the candidate staying.
C6_RejectedCandidateTurns ==
    [][Rejected =>
          /\ NothingAppended
          /\ dyn.direction # 0
          /\ dyn'.direction = -dyn.direction
          /\ call'.func = "check_peak_func" =>
                 /\ dyn.direction = 1
                 /\ dyn'.min_inx = dyn.index
                 /\ dyn'.min_value = At(args.data, dyn.index)
                 /\ dyn'.max_inx = dyn.max_inx
                 /\ dyn'.max_value = dyn.max_value
          /\ call'.func = "check_trough_func" =>
                 /\ dyn.direction = -1
                 /\ dyn'.max_inx = dyn.index
                 /\ dyn'.max_value = At(args.data, dyn.index)
                 /\ dyn'.min_inx = dyn.min_inx
                 /\ dyn'.min_value = dyn.min_value]_vars

C6_Witness ==
    /\ dpc = "decay"
    /\ call.func = "check_peak_func"
    /\ call.r = None
    /\ call.index = dyn.index - 1
    /\ dyn.direction = -1
    /\ dyn.peaks_list = <<>>

TimeMismatch(a) == a.time # None /\ Len(Value(a.time)) # Len(a.data)

ValueViolation(a) ==
    \/ FLeq(a.threshold, Whole(0))
    \/ FLeq(a.min_thresh, Whole(0))
    \/ FLeq(a.tau, Whole(0))

\* the call ended at its entry: nothing scanned, no evaluator called and no
\* event committed
FailedAtEntry ==
    /\ dpc = "error"
    /\ derr.line \in 1160..1167
    /\ dyn = DynIdle
    /\ call = NoCall

\* C7: detect_dynamic_peaks() fails at its entry whenever threshold <= 0,
\* min_thresh <= 0, tau <= 0 or a time array differs in length from data;
\* each violation alone raises: a ValueError for each of the first three,
\* an IndexError for the length.
C7_ArgumentErrors ==
    dpc # "call" =>
        /\ (ValueViolation(args) \/ TimeMismatch(args)) => FailedAtEntry
        /\ (ValueViolation(args) /\ ~TimeMismatch(args))
               => derr.type = "ValueError"
        /\ (TimeMismatch(args) /\ ~ValueViolation(args))
               => derr.type = "IndexError"

C7_Witness ==
    /\ dpc = "error"
    /\ FLeq(args.min_thresh, Whole(0))
    /\ ~FLeq(args.threshold, Whole(0))
    /\ ~FLeq(args.tau, Whole(0))
    /\ ~TimeMismatch(args)
    /\ derr.type = "ValueError"

----------------------------------------------------------------------------
(* trim_to_peak() and merge_events(). *)

MaxT == 4     \* onsets and offsets are 0..MaxT
MaxEv == 4    \* longest list of onsets or offsets

Min(a, b) == IF a < b THEN a ELSE b

\* s[a:b] of Python for 0 <= a
Slice(s, a, b) == SubSeq(s, a + 1, Min(b, Len(s)))

\* s[mask] of numpy for a boolean mask as long as s
RECURSIVE Masked(_, _)
Masked(s, mask) ==
    IF Len(s) = 0 THEN <<>>
    ELSE IF Head(mask) THEN <<Head(s)>> \o Masked(Tail(s), Tail(mask))
    ELSE Masked(Tail(s), Tail(mask))

trim_to_peak(peaks, troughs) ==
    LET tidx == IF Len(peaks) > 0 /\ Len(troughs) > 0
                   /\ At(troughs, 0) < At(peaks, 0)
                THEN 1 ELSE 0
        n == Min(Len(peaks), Len(Slice(troughs, tidx, Len(troughs))))
    IN  <<Slice(peaks, 0, n), Slice(troughs, tidx, tidx + n)>>

\* GapMask with the distance taken between succeeding onsets
GapMask_BetweenOnsets(on, off, md) ==
    [k \in 1..(Len(on) - 1) |-> on[k + 1] - on[k] > md]

\* GapMask keeping the events apart at a gap of exactly min_distance
GapMask_AtLeast(on, off, md) ==
    [k \in 1..(Len(on) - 1) |-> on[k + 1] - off[k] >= md]

\* indices = diff > min_distance  for  diff = onsets[1:] - offsets[:-1]
GapMask(on, off, md) ==
    [k \in 1..(Len(on) - 1) |-> on[k + 1] - off[k] > md]

merge_events(on0, off0, md) ==
    LET t == trim_to_peak(on0, off0)
        on == t[1]
        off == t[2]
        indices == GapMask(on, off, md)
    IN  IF Len(on) = 0 \/ Len(off) = 0
        THEN <<<<>>, <<>>>>
        ELSE <<Masked(on, <<TRUE>> \o indices),
               Masked(off, indices \o <<TRUE>>)>>

----------------------------------------------------------------------------
(* The calls of merge_events() as a state machine. *)

NonDecreasing(s) == \A k \in 1..(Len(s) - 1) : s[k] <= s[k + 1]

EventLists == {s \in SeqsUpTo(0..MaxT, MaxEv) : NonDecreasing(s)}

\* the example of the merge of two of three events
Scenario ==
    [onsets |-> <<10, 50, 200>>, offsets |-> <<20, 60, 210>>,
     min_distance |-> 40]

EventArguments ==
    [onsets : EventLists, offsets : EventLists, min_distance : -1..MaxT]
        \cup {Scenario}

InitEvents ==
    /\ \E a \in EventArguments :
           /\ onsets = a.onsets
           /\ offsets = a.offsets
           /\ min_distance = a.min_distance
    /\ epc = "call"
    /\ merged_onsets = <<>>
    /\ merged_offsets = <<>>
    /\ remerged = <<>>
    /\ PeaksNotCalled
    /\ DynNotCalled
    /\ NothingCalled

\* merged_onsets, merged_offsets = merge_events(onsets, offsets, min_distance)
MergeEvents ==
    /\ epc = "call"
    /\ merged_onsets' = merge_events(onsets, offsets, min_distance)[1]
    /\ merged_offsets' = merge_events(onsets, offsets, min_distance)[2]
    /\ epc' = "merged"
    /\ UNCHANGED <<onsets, offsets, min_distance, remerged>>
    /\ UNCHANGED <<peakVars, dynVars, callVars>>

\* merge_events(merged_onsets, merged_offsets, min_distance)
MergeAgain ==
    /\ epc = "merged"
    /\ remerged' = merge_events(merged_onsets, merged_offsets, min_distance)
    /\ epc' = "remerged"
    /\ UNCHANGED <<onsets, offsets, min_distance,
                   merged_onsets, merged_offsets>>
    /\ UNCHANGED <<peakVars, dynVars, callVars>>

NextEvents ==
    \/ MergeEvents
    \/ MergeAgain

SpecEvents == InitEvents /\ [][NextEvents]_vars

----------------------------------------------------------------------------
(* Properties of merge_events(). *)

\* C8: in the result of merge_events() no two consecutive events are closer
\* than min_distance:
\* merged_onsets[k+1] - merged_offsets[k] >= min_distance for every k.
C8_NoGapBelowMinDistance ==
    epc = "merged" =>
        /\ Len(merged_onsets) = Len(merged_offsets)
        /\ \A k \in 1..(Len(merged_onsets) - 1) :
               merged_onsets[k + 1] - merged_offsets[k] >= min_distance

C8_Witness ==
    /\ epc = "merged"
    /\ onsets \in EventLists
    /\ offsets \in EventLists
    /\ min_distance > 0
    /\ Len(merged_onsets) >= 2
    /\ Len(merged_onsets) < Len(trim_to_peak(onsets, offsets)[1])

\* C9: merge_events() is idempotent: applied to its own result with the
\* same min_distance it returns that result.
C9_MergeIdempotent ==
    epc = "remerged" => remerged = <<merged_onsets, merged_offsets>>

\* The events of the maximal runs of events k, k+1, ... whose gaps
\* on[i+1] - off[i] are all <= md: for each run the onset of its first and
\* the offset of its last event.  first is the first event of the run event
\* k belongs to.
RECURSIVE Runs(_, _, _, _, _)
Runs(on, off, md, first, k) ==
    IF k = Len(on)
    THEN <<<<on[first]>>, <<off[k]>>>>
    ELSE IF on[k + 1] - off[k] <= md
    THEN Runs(on, off, md, first, k + 1)
    ELSE LET rest == Runs(on, off, md, k + 1, k + 1)
         IN  <<<<on[first]>> \o rest[1], <<off[k]>> \o rest[2]>>

RunsOfAligned(on0, off0, md) ==
    LET t == trim_to_peak(on0, off0)
    IN  IF Len(t[1]) = 0 THEN <<<<>>, <<>>>> ELSE Runs(t[1], t[2], md, 1, 1)

----------------------------------------------------------------------------
(* trim(), trim_closest(), remove_events() and widen_events().  The        *)
(* positions are indices (integers) or times; a time is a multiple of      *)
(* 1/resolution and is held as the number of these steps.                  *)

MaxPos == 3    \* positions of events are 0..MaxPos
MaxNum == 3    \* longest array of peaks, troughs, onsets or offsets
MaxDur == 2    \* durations are 0..MaxDur

Max(a, b) == IF a > b THEN a ELSE b

\* s[a:b] of Python for 0 <= a and any b: a negative b counts from the end
PySlice(s, a, b) ==
    SubSeq(s, a + 1, IF b < 0 THEN Max(b + Len(s), 0) ELSE Min(b, Len(s)))

\* what a call hands back: a value, or the exception it ends with
Return(value) == [raised |-> NoError, value |-> value]

Fail(type, line) == [raised |-> Raise(type, line), value |-> <<>>]

\* DurationMask with the bounds included
DurationMask_Inclusive(on, off, min_duration, max_duration) ==
    [k \in 1..Len(on) |->
        /\ min_duration # None => off[k] - on[k] >= Value(min_duration)
        /\ max_duration # None => off[k] - on[k] <= Value(max_duration)]

\* indices = (diff > min_duration) & (diff < max_duration)  for
\* diff = offsets - onsets, a bound that is None left out
DurationMask(on, off, min_duration, max_duration) ==
    [k \in 1..Len(on) |->
        /\ min_duration # None => off[k] - on[k] > Value(min_duration)
        /\ max_duration # None => off[k] - on[k] < Value(max_duration)]

remove_events(on0, off0, min_duration, max_duration) ==
    LET t == trim_to_peak(on0, off0)
        on == t[1]
        off == t[2]
        indices == DurationMask(on, off, min_duration, max_duration)
    IN  IF Len(on) = 0 \/ Len(off) = 0
        THEN <<<<>>, <<>>>>
        ELSE IF min_duration # None \/ max_duration # None
        THEN <<Masked(on, indices), Masked(off, indices)>>
        ELSE <<on, off>>

trim(peaks, troughs) ==
    LET n == Min(Len(peaks), Len(troughs))
    IN  <<Slice(peaks, 0, n), Slice(troughs, 0, n)>>

\* numpy can subtract two arrays of the same length, or an array of one
\* element and any other array
Broadcast(a, b) == Len(a) = Len(b) \/ Len(a) = 1 \/ Len(b) = 1

\* a - b of numpy for arrays that can be subtracted
Minus(a, b) ==
    [k \in 1..(IF Len(a) = 1 THEN Len(b) ELSE Len(a)) |->
        (IF Len(a) = 1 THEN a[1] ELSE a[k])
            - (IF Len(b) = 1 THEN b[1] ELSE b[k])]

RECURSIVE Sum(_)
Sum(s) == IF Len(s) = 0 THEN 0 ELSE Head(s) + Sum(Tail(s))

\* the mean of an empty array is nan (with a warning, not an exception)
NaN == None

\* np.abs(np.mean(s)) as an exact fraction
AbsMean(s) == IF Len(s) = 0 THEN NaN ELSE Frac(Abs(Sum(s)), Len(s))

\* x < y of floats: False when one of them is nan
Less(x, y) == x # NaN /\ y # NaN /\ FLess(x, y)

\* the test of line 614 cannot hold after the return of line 612
trim_closest(peaks, troughs) ==
    LET nn == Min(Len(peaks), Len(troughs))
        dist == AbsMean(Minus(Slice(peaks, 0, nn), Slice(troughs, 0, nn)))
        nnp == Min(Len(PySlice(peaks, 1, Len(peaks))), Len(troughs))
        pp == PySlice(peaks, 1, nnp)
        pt == PySlice(troughs, 0, nnp - 1)
        nnt == Min(Len(peaks), Len(PySlice(troughs, 1, Len(troughs))))
        tp == PySlice(peaks, 0, nnt - 1)
        tt == PySlice(troughs, 1, nnt)
    IN  IF nn = 0 THEN Return(<<<<>>, <<>>>>)
        ELSE IF At(peaks, 0) < At(troughs, 0)
        THEN IF ~Broadcast(pp, pt) THEN Fail("ValueError", 619)
             ELSE IF Less(AbsMean(Minus(pp, pt)), dist)
             THEN Return(<<PySlice(peaks, 1, 1 + nnp),
                           PySlice(troughs, 0, nnp)>>)
             ELSE Return(<<PySlice(peaks, 0, nn), PySlice(troughs, 0, nn)>>)
        ELSE IF ~Broadcast(tp, tt) THEN Fail("ValueError", 625)
             ELSE IF Less(AbsMean(Minus(tp, tt)), dist)
             THEN Return(<<PySlice(peaks, 0, nnt),
                           PySlice(troughs, 1, 1 + nnt)>>)
             ELSE Return(<<PySlice(peaks, 0, nn), PySlice(troughs, 0, nn)>>)

\* x//2 of Python: the largest whole number not above x/2, also for a float
FloorHalf(x, resolution) == resolution * (x \div (2 * resolution))

\* Collapses with events a gap of exactly  2*duration  apart also meeting
Collapses_AtTwice(on_idx, off_idx, duration) ==
    on_idx - off_idx <= 2 * duration

\* if on_idx - off_idx < 2*duration
Collapses(on_idx, off_idx, duration) == on_idx - off_idx < 2 * duration

\* the number of pairs of  zip(offsets[:-1], onsets[1:])
Gaps(on, off) == Min(Max(Len(off) - 1, 0), Max(Len(on) - 1, 0))

widen_events(on, off, max_time, duration, resolution) ==
    LET first == IF Len(on) > 0
                 THEN <<IF At(on, 0) >= duration
                        THEN At(on, 0) - duration ELSE 0>>
                 ELSE <<>>
        new_offset(k) == IF Collapses(on[k + 1], off[k], duration)
                         THEN FloorHalf(on[k + 1] + off[k], resolution)
                         ELSE off[k] + duration
        new_onset(k) == IF Collapses(on[k + 1], off[k], duration)
                        THEN FloorHalf(on[k + 1] + off[k], resolution)
                        ELSE on[k + 1] - duration
        last == IF Len(off) > 0
                THEN <<IF PyAt(off, -1) + duration < max_time
                       THEN PyAt(off, -1) + duration ELSE max_time>>
                ELSE <<>>
    IN  <<first \o [k \in 1..Gaps(on, off) |-> new_onset(k)],
          [k \in 1..Gaps(on, off) |-> new_offset(k)] \o last>>

----------------------------------------------------------------------------
(* The calls of the event algebra as a state machine. *)

Positions == {s \in SeqsUpTo(0..MaxPos, MaxNum) : NonDecreasing(s)}

Durations == {None} \cup {Some(d) : d \in 0..MaxDur}

\* indices, or times in quarters of a second
Resolutions == {1, 4}

TrimCalls == [peaks : Positions, troughs : Positions]

RemoveCalls ==
    [onsets : Positions, offsets : Positions,
     min_duration : Durations, max_duration : Durations]

WidenCalls ==
    [onsets : Positions, offsets : Positions, max_time : 0..MaxPos,
     duration : 0..MaxDur, resolution : Resolutions]

InitAlgebra ==
    /\ \/ func \in {"trim", "trim_to_peak", "trim_closest"}
          /\ params \in TrimCalls
       \/ func = "remove_events" /\ params \in RemoveCalls
       \/ func = "widen_events" /\ params \in WidenCalls
    /\ cpc = "call"
    /\ locals = <<>>
    /\ returned = <<>>
    /\ raised = NoError
    /\ PeaksNotCalled
    /\ DynNotCalled
    /\ EventsNotCalled

\* the call ends: with a return value, or with an exception
Finish(r) ==
    /\ cpc = "call"
    /\ cpc' = IF r.raised = NoError THEN "done" ELSE "error"
    /\ returned' = r.value
    /\ raised' = r.raised
    /\ UNCHANGED <<func, params, locals>>
    /\ UNCHANGED <<peakVars, dynVars, eventVars>>

Trim ==
    /\ func = "trim"
    /\ Finish(Return(trim(params.peaks, params.troughs)))

TrimToPeak ==
    /\ func = "trim_to_peak"
    /\ Finish(Return(trim_to_peak(params.peaks, params.troughs)))

TrimClosest ==
    /\ func = "trim_closest"
    /\ Finish(trim_closest(params.peaks, params.troughs))

RemoveEvents ==
    /\ func = "remove_events"
    /\ Finish(Return(remove_events(params.onsets, params.offsets,
                                   params.min_duration, params.max_duration)))

WidenEvents ==
    /\ func = "widen_events"
    /\ Finish(Return(widen_events(params.onsets, params.offsets,
                                  params.max_time, params.duration,
                                  params.resolution)))

NextAlgebra ==
    \/ Trim
    \/ TrimToPeak
    \/ TrimClosest
    \/ RemoveEvents
    \/ WidenEvents

SpecAlgebra == InitAlgebra /\ [][NextAlgebra]_vars

----------------------------------------------------------------------------
(* Properties of the event algebra. *)

Done(f) == func = f /\ cpc = "done"

\* the events of the aligned input that last longer than min_duration and
\* shorter than max_duration
Kept(on, off, min_duration, max_duration) ==
    {k \in 1..Len(on) :
        /\ min_duration # None => Value(min_duration) < off[k] - on[k]
        /\ max_duration # None => off[k] - on[k] < Value(max_duration)}

\* the j-th element of a set of numbers
Nth(S, j) == CHOOSE k \in S : Cardinality({i \in S : i <= k}) = j

Events(on, off, max_time) ==
    /\ Len(on) = Len(off)
    /\ NonDecreasing(on)
    /\ NonDecreasing(off)
    /\ \A k \in 1..Len(on) : on[k] <= off[k]
    /\ \A k \in 1..Len(on) : 0 <= on[k] /\ off[k] <= max_time

\* no event begins before the event before it has ended
Apart(on, off) == \A k \in 1..(Len(on) - 1) : off[k] <= on[k + 1]

Widened(duration) ==
    /\ Done("widen_events")
    /\ params.duration = duration
    /\ Events(params.onsets, params.offsets, params.max_time)

\* C12 as stated: widen_events() with duration = 0 returns every sequence
\* of events unchanged.
C12_AsStated ==
    Widened(0) => returned = <<params.onsets, params.offsets>>

\* C12: widen_events() with duration = 0 returns events unchanged that do
\* not overlap, offset[i] <= onset[i+1].
C12_ZeroDurationIdentity ==
    (Widened(0) /\ Apart(params.onsets, params.offsets)) =>
        returned = <<params.onsets, params.offsets>>

C12_Witness ==
    /\ Widened(0)
    /\ Apart(params.onsets, params.offsets)
    /\ params.resolution > 1
    /\ Len(params.onsets) = MaxNum
    /\ params.onsets[1] < params.onsets[MaxNum]
    /\ \E k \in 1..(MaxNum - 1) : params.offsets[k] = params.onsets[k + 1]
    /\ params.offsets[MaxNum] = params.max_time
    /\ returned = <<params.onsets, params.offsets>>

\* m is the centre between a and b: of two indices the index below it, of
\* two times the time half-way
Midpoint(m, a, b, resolution) ==
    IF resolution = 1 THEN m = (a + b) \div 2 ELSE 2 * m = a + b

\* C13: for duration >= 0 the events widen_events() returns stay in
\* [0, max_time] and do not overlap,
\* 0 <= new_onset[0] <= new_offset[0] <= new_onset[1] <= ... <= max_time,
\* and new_offset[k] = new_onset[k+1] = the midpoint of offset[k] and
\* onset[k+1] exactly when onset[k+1] - offset[k] < 2*duration.
C13_WidenedEventsOrdered ==
    (Done("widen_events")
     /\ Events(params.onsets, params.offsets, params.max_time)) =>
        LET on == params.onsets
            off == params.offsets
            new_onset == returned[1]
            new_offset == returned[2]
        IN  /\ Len(new_onset) = Len(on)
            /\ Len(new_offset) = Len(on)
            /\ \A k \in 1..Len(on) :
                   /\ 0 <= new_onset[k]
                   /\ new_onset[k] <= new_offset[k]
                   /\ new_offset[k] <= params.max_time
            /\ \A k \in 1..(Len(on) - 1) :
                   /\ new_offset[k] <= new_onset[k + 1]
                   /\ (/\ new_offset[k] = new_onset[k + 1]
                       /\ Midpoint(new_offset[k], off[k], on[k + 1],
                                   params.resolution))
                          <=> on[k + 1] - off[k] < 2 * params.duration

\* C14: when trim_to_peak() returns two non-empty sequences, the first
\* onset it returns is not after the first offset it returns.
C14_FirstOnsetNotAfterFirstOffset ==
    (Done("trim_to_peak") /\ Len(returned[1]) > 0 /\ Len(returned[2]) > 0)
        => At(returned[1], 0) <= At(returned[2], 0)

\* t is s[a:b] for some a and b
IsSlice(t, s) ==
    \E a \in 0..Len(s) : \E b \in a..Len(s) : t = Slice(s, a, b)

Trimming == func \in {"trim", "trim_to_peak", "trim_closest"}

\* C15: for peaks and troughs of any lengths, empty ones and lengths that
\* differ by more than one included, trim(), trim_to_peak() and
\* trim_closest() return without an error two sequences of the same length,
\* each a contiguous slice of its input; trim() returns the first
\* min(len(peaks), len(troughs)) elements of both.
C15_TrimmedToSameLength ==
    (Trimming /\ cpc # "call") =>
        /\ cpc = "done"
        /\ Len(returned[1]) = Len(returned[2])
        /\ IsSlice(returned[1], params.peaks)
        /\ IsSlice(returned[2], params.troughs)
        /\ func = "trim" =>
               \E n \in {Len(params.peaks), Len(params.troughs)} :
                   /\ n <= Len(params.peaks)
                   /\ n <= Len(params.troughs)
                   /\ returned = <<SubSeq(params.peaks, 1, n),
                                   SubSeq(params.troughs, 1, n)>>

\* the three alignments of peaks and troughs: both kept, the first peak
\* dropped, the first trough dropped, each cut to the common length
Alignments(peaks, troughs) ==
    {trim(peaks, troughs), trim(Tail(peaks), troughs),
     trim(peaks, Tail(troughs))}

\* the magnitude of the mean distance of the pairs of an alignment
Distance(c) == AbsMean([k \in 1..Len(c[1]) |-> c[1][k] - c[2][k]])

\* C16: for non-empty ascending peaks and troughs trim_closest() returns
\* one of the three alignments (keep, drop the first peak, drop the first
\* trough) whose mean distance over all its pairs is smallest in magnitude,
\* the unshifted one unless a shifted one is strictly better; for an empty
\* input it returns two empty sequences.
C16_ClosestAlignment ==
    (func = "trim_closest" /\ cpc # "call") =>
        /\ cpc = "done"
        /\ (Len(params.peaks) = 0 \/ Len(params.troughs) = 0)
               => returned = <<<<>>, <<>>>>
        /\ (Len(params.peaks) > 0 /\ Len(params.troughs) > 0) =>
               LET A == Alignments(params.peaks, params.troughs)
                   keep == trim(params.peaks, params.troughs)
               IN  /\ returned \in A
                   /\ \A c \in A : ~Less(Distance(c), Distance(returned))
                   /\ returned # keep
                          => Less(Distance(returned), Distance(keep))

----------------------------------------------------------------------------
(* threshold_crossings(). *)

MaxLevel == 1      \* samples and thresholds are 0..MaxLevel
MaxSamples == 4    \* longest array of samples or of thresholds

\* np.nonzero(mask)[0]: the 0-based indices where the mask holds, ascending
Nonzero(mask) == Masked([k \in 1..Len(mask) |-> k - 1], mask)

\* the threshold that sample index is compared with
CrossingThresholdAt(thr, index) ==
    IF isscalar(thr) THEN thr.val ELSE At(thr.val, index)

\* UpMask without the comparison of the sample before the crossing
UpMask_AboveOnly(d, thr) ==
    [k \in 1..(Len(d) - 1) |-> At(d, k) > CrossingThresholdAt(thr, k)]

\* UpMask with both samples compared with the threshold of the first one
UpMask_OneThreshold(d, thr) ==
    [k \in 1..(Len(d) - 1) |->
        /\ At(d, k) > CrossingThresholdAt(thr, k - 1)
        /\ At(d, k - 1) <= CrossingThresholdAt(thr, k - 1)]

\* (data[1:] > threshold[1:]) & (data[:-1] <= threshold[:-1])
UpMask(d, thr) ==
    [k \in 1..(Len(d) - 1) |->
        /\ At(d, k) > CrossingThresholdAt(thr, k)
        /\ At(d, k - 1) <= CrossingThresholdAt(thr, k - 1)]

\* (data[1:] <= threshold[1:]) & (data[:-1] > threshold[:-1])
DownMask(d, thr) ==
    [k \in 1..(Len(d) - 1) |->
        /\ At(d, k) <= CrossingThresholdAt(thr, k)
        /\ At(d, k - 1) > CrossingThresholdAt(thr, k - 1)]

threshold_crossings(d, thr) ==
    IF ~isscalar(thr) /\ Len(d) # Len(thr.val)
    THEN Fail("IndexError", 503)
    ELSE Return(<<Nonzero(UpMask(d, thr)), Nonzero(DownMask(d, thr))>>)

----------------------------------------------------------------------------
(* The call of threshold_crossings() as a state machine. *)

Samples == SeqsUpTo(0..MaxLevel, MaxSamples)

CrossingThresholds ==
    {Scalar(v) : v \in 0..MaxLevel} \cup {Array(s) : s \in Samples}

InitCrossings ==
    /\ func = "threshold_crossings"
    /\ params \in [data : Samples, threshold : CrossingThresholds]
    /\ cpc = "call"
    /\ locals = <<>>
    /\ returned = <<>>
    /\ raised = NoError
    /\ PeaksNotCalled
    /\ DynNotCalled
    /\ EventsNotCalled

\* the threshold is an array that is not as long as the data
ThresholdCrossingsRaise ==
    /\ func = "threshold_crossings"
    /\ threshold_crossings(params.data, params.threshold).raised # NoError
    /\ Finish(threshold_crossings(params.data, params.threshold))

\* up_indices, down_indices = threshold_crossings(data, threshold)
ThresholdCrossings ==
    /\ func = "threshold_crossings"
    /\ threshold_crossings(params.data, params.threshold).raised = NoError
    /\ Finish(threshold_crossings(params.data, params.threshold))

NextCrossings ==
    \/ ThresholdCrossingsRaise
    \/ ThresholdCrossings

SpecCrossings == InitCrossings /\ [][NextCrossings]_vars

----------------------------------------------------------------------------
(* Properties of threshold_crossings(). *)

\* C17: index i with 0 <= i < len(data) - 1 is in up_indices exactly when
\* data[i] <= thr(i) and data[i+1] > thr(i+1), and in down_indices exactly
\* when data[i] > thr(i) and data[i+1] <= thr(i+1), thr(i) being the scalar
\* threshold or threshold[i]; an array threshold that is not as long as the
\* data ends the call with an IndexError.
C17_CrossingsBetweenSamples ==
    (func = "threshold_crossings" /\ cpc # "call") =>
        LET d == params.data
            thr(i) == IF params.threshold.kind = "scalar"
                      THEN params.threshold.val
                      ELSE params.threshold.val[i + 1]
        IN  IF params.threshold.kind = "array"
               /\ Len(params.threshold.val) # Len(d)
            THEN cpc = "error" /\ raised.type = "IndexError"
            ELSE /\ cpc = "done"
                 /\ Range(returned[1]) \subseteq 0..(Len(d) - 2)
                 /\ Range(returned[2]) \subseteq 0..(Len(d) - 2)
                 /\ \A i \in 0..(Len(d) - 2) :
                        /\ i \in Range(returned[1])
                               <=> (d[i + 1] <= thr(i) /\ d[i + 2] > thr(i + 1))
                        /\ i \in Range(returned[2])
                               <=> (d[i + 1] > thr(i) /\ d[i + 2] <= thr(i + 1))

C17_Witness ==
    /\ func = "threshold_crossings"
    /\ cpc = "done"
    /\ params.threshold.kind = "array"
    /\ \E i \in 1..Len(params.threshold.val) :
           params.threshold.val[i] # params.threshold.val[1]
    /\ Len(returned[1]) > 0
    /\ Len(returned[2]) > 0

----------------------------------------------------------------------------
(* peak_width() and peak_size_width(): the entry of the call, up to the    *)
(* choice of the base function.                                            *)

MaxWidthLen == 3    \* longest data array of peak_width()

Bases == {"left", "right", "min", "max", "mean", "closest"}

\* the names of the bases, and two names that are none
BaseNames == Bases \cup {"median", ""}

WidthFunctions == {"peak_width", "peak_size_width"}

\* strictly ascending indices into an array of n samples
IndexLists(n) == {s \in SeqsUpTo(0..(n - 1), n) : StrictlyAscending(s)}

\* the loop of detect_peaks_fixed() from the state s to the end of the data
RECURSIVE ScanFrom(_, _, _)
ScanFrom(s, d, thr) ==
    IF s.index >= Len(d) THEN s
    ELSE ScanFrom([LoopBody(s, s.index, At(d, s.index), thr)
                      EXCEPT !.index = s.index + 1], d, thr)

\* peaks, troughs = detect_peaks_fixed(data, threshold) of non-empty data
detect_peaks_fixed(d, thr) ==
    LET s == ScanFrom(ScanInit(d), d, thr)
    IN  <<s.peaks, s.troughs>>

MaxHalfWidth == 2    \* a pulse is up to MaxHalfWidth samples to each side
MaxSlope == 2        \* a pulse rises by up to MaxSlope per sample

TimeSteps == {1, 2}

PeakFracs == {<<1, 2>>, <<3, 4>>}

\* time[k] = k*dt for n samples
Uniform(n, dt) == [k \in 1..n |-> (k - 1) * dt]

\* n samples that are zero except for the triangle of the given slope that
\* has its apex at index c and reaches zero m samples to each side of it
Pulse(n, c, m, slope) ==
    [k \in 1..n |-> Max(0, slope * (m - Abs(k - 1 - c)))]

Pulses ==
    {Pulse(n, c, m, slope) :
        n \in 1..MaxLen, c \in 0..(MaxLen - 1),
        m \in 1..MaxHalfWidth, slope \in 1..MaxSlope}

WidthCall(d, dt, p, t, f, b) ==
    [data |-> d, time |-> Uniform(Len(d), dt), peak_indices |-> p,
     trough_indices |-> t, peak_frac |-> f, base |-> b]

\* calls with arbitrary ascending index lists for the peaks and troughs
WidthCalls ==
    {WidthCall(d, 1, p, t, <<1, 2>>, b) :
        d \in SeqsUpTo(0..MaxLevel, MaxWidthLen),
        p \in IndexLists(MaxWidthLen), t \in IndexLists(MaxWidthLen),
        b \in BaseNames}

DetectedCall(d, thr, dt, f, b) ==
    LET detected == detect_peaks_fixed(d, thr)
    IN  WidthCall(d, dt, detected[1], detected[2], f, b)

\* the peaks and troughs detect_peaks() returns for the same data
DetectedCalls ==
    {DetectedCall(d, thr, dt, f, b) :
        d \in SeqsUpTo(0..MaxLevel, MaxLen) \ {<<>>}, thr \in 1..MaxLevel,
        b \in Bases, dt \in TimeSteps, f \in PeakFracs}
    \cup
    {DetectedCall(d, thr, dt, f, b) :
        d \in {x \in Pulses : x[1] = 0 /\ x[Len(x)] = 0},
        thr \in 1..(MaxHalfWidth * MaxSlope),
        b \in Bases, dt \in TimeSteps, f \in PeakFracs}

ValidWidthCall(a) ==
    /\ a.peak_indices \in IndexLists(Len(a.data))
    /\ a.trough_indices \in IndexLists(Len(a.data))
    /\ Alternate(a.peak_indices, a.trough_indices)

\* TroughsAround that adds a trough before the first peak only
TroughsAround_LeftOnly(d, peak_inx, trough_indices) ==
    IF Len(trough_indices) = 0 \/ At(peak_inx, 0) < At(trough_indices, 0)
    THEN <<0>> \o trough_indices
    ELSE trough_indices

\* we need a trough before and after each peak
TroughsAround(d, peak_inx, trough_indices) ==
    LET trough_inx == IF Len(trough_indices) = 0
                         \/ At(peak_inx, 0) < At(trough_indices, 0)
                      THEN <<0>> \o trough_indices
                      ELSE trough_indices
    IN  IF PyAt(peak_inx, -1) > PyAt(trough_inx, -1)
        THEN trough_inx \o <<Len(d) - 1>>
        ELSE trough_inx

\* np.zeros(len(peak_indices))
Zeros(n) == [k \in 1..n |-> 0]

\* base_func(data, left_inx, right_inx, peak_inx)
BaseValue(base, d, left_inx, right_inx, peak_inx) ==
    LET l == At(d, left_inx)
        r == At(d, right_inx)
    IN  CASE base = "left" -> Whole(l)
          [] base = "right" -> Whole(r)
          [] base = "min" -> Whole(Min(l, r))
          [] base = "max" -> Whole(Max(l, r))
          [] base = "mean" -> Frac(l + r, 2)
          [] base = "closest" ->
                 IF peak_inx - left_inx <= right_inx - peak_inx
                 THEN Whole(l) ELSE Whole(r)

\* WidthThreshold at the base whatever peak_frac is
WidthThreshold_AtBase(baseval, peak, peak_frac) == baseval

\* baseval*(1.0-peak_frac) + data[peak_inx]*peak_frac
WidthThreshold(baseval, peak, peak_frac) ==
    FAdd(FMul(baseval, FSub(Whole(1), peak_frac)),
         FMul(Whole(peak), peak_frac))

\* np.argmax(mask): the first index where the mask holds, 0 if it never does
ArgMax(mask) ==
    IF \E k \in 1..Len(mask) : mask[k]
    THEN (CHOOSE k \in 1..Len(mask) :
              mask[k] /\ \A i \in 1..(k - 1) : ~mask[i]) - 1
    ELSE 0

\* np.interp(x, xp, fp) for two points: fp[0] up to xp[0], fp[1] from xp[1]
\* on, linear between them; for xp that does not increase numpy leaves the
\* result open, it is one of the two values of fp
Interp(x, xp, fp) ==
    IF FLess(xp[1], xp[2])
    THEN {IF FLeq(x, xp[1]) THEN fp[1]
          ELSE IF FLeq(xp[2], x) THEN fp[2]
          ELSE FAdd(fp[1], FDiv(FMul(FSub(fp[2], fp[1]), FSub(x, xp[1])),
                                FSub(xp[2], xp[1])))}
    ELSE {fp[1], fp[2]}

\* data[a], data[b] and time[a], time[b] as the two points of np.interp
Points(s, a, b) == <<Whole(At(s, a)), Whole(At(s, b))>>

\* the times ti0 where the data rise above thresh after the left trough
LeftTimes(d, time, li, ri, thresh) ==
    LET inx == li + ArgMax([k \in 1..(ri - li) |->
                               FLess(thresh, Whole(At(d, li + k - 1)))])
    IN  IF inx > 0
        THEN Interp(thresh, Points(d, inx - 1, inx),
                    Points(time, inx - 1, inx))
        ELSE {Whole(At(time, 0))}

\* the times ti1 where the data fall below thresh before the right trough
RightTimes(d, time, li, ri, thresh) ==
    LET inx == ri - ArgMax([k \in 1..(ri - li) |->
                               FLess(thresh, Whole(At(d, ri - k + 1)))])
    IN  IF inx + 1 < Len(d)
        THEN Interp(thresh, Points(d, inx + 1, inx),
                    Points(time, inx + 1, inx))
        ELSE {Whole(PyAt(time, -1))}

\* the exception one pass of the loop over the peaks ends with: the troughs
\* have no entry j+1, or no sample lies between the two troughs
WidthError(f, trough_inx, j) ==
    IF j + 1 >= Len(trough_inx)
    THEN Raise("IndexError", IF f = "peak_width" THEN 353 ELSE 456)
    ELSE IF At(trough_inx, j) >= At(trough_inx, j + 1)
         THEN Raise("ValueError", IF f = "peak_width" THEN 356 ELSE 459)
         ELSE NoError

\* size and width of peak j: data[pi] - baseval and the ti1 - ti0 possible
SizeWidths(a, trough_inx, j) ==
    LET li == At(trough_inx, j)
        ri == At(trough_inx, j + 1)
        pi == At(a.peak_indices, j)
        baseval == BaseValue(a.base, a.data, li, ri, pi)
        thresh == WidthThreshold(baseval, At(a.data, pi), a.peak_frac)
    IN  {[size |-> FSub(Whole(At(a.data, pi)), baseval),
          width |-> FSub(ti1, ti0)] :
            ti0 \in LeftTimes(a.data, a.time, li, ri, thresh),
            ti1 \in RightTimes(a.data, a.time, li, ri, thresh)}

InitWidth ==
    /\ func \in WidthFunctions
    /\ params \in {a \in WidthCalls : ValidWidthCall(a)} \cup DetectedCalls
    /\ cpc = "call"
    /\ locals = <<>>
    /\ returned = <<>>
    /\ raised = NoError
    /\ PeaksNotCalled
    /\ DynNotCalled
    /\ EventsNotCalled

\* if len(peak_indices) == 0: return widths
PeakWidthEmpty ==
    /\ func \in WidthFunctions
    /\ Len(params.peak_indices) = 0
    /\ Finish(Return(Zeros(0)))

\* else: raise ValueError('Invalid value for base (%s)' % base)
PeakWidthRaise ==
    /\ func \in WidthFunctions
    /\ Len(params.peak_indices) > 0
    /\ params.base \notin Bases
    /\ Finish(Fail("ValueError", IF func = "peak_width" THEN 349 ELSE 452))

\* the troughs are completed and the base function is chosen: the loop over
\* the peaks begins; peak_size_width() has set the time and the height of
\* each peak before
PeakWidthEnter ==
    /\ func \in WidthFunctions
    /\ cpc = "call"
    /\ Len(params.peak_indices) > 0
    /\ params.base \in Bases
    /\ cpc' = "widths"
    /\ locals' = [trough_inx |-> TroughsAround(params.data,
                                               params.peak_indices,
                                               params.trough_indices),
                  base_func |-> params.base,
                  j |-> 0,
                  widths |-> [k \in 1..Len(params.peak_indices) |->
                                 Whole(0)],
                  peaks |-> [k \in 1..Len(params.peak_indices) |->
                                <<Whole(At(params.time,
                                           params.peak_indices[k])),
                                  Whole(At(params.data,
                                           params.peak_indices[k])),
                                  Whole(0), Whole(0), Whole(0)>>]]
    /\ UNCHANGED <<func, params, returned, raised>>
    /\ UNCHANGED <<peakVars, dynVars, eventVars>>

\* one pass of the loop over the peaks ends with an exception
PeakWidthLoopRaise ==
    /\ func \in WidthFunctions
    /\ cpc = "widths"
    /\ locals.j < Len(params.peak_indices)
    /\ WidthError(func, locals.trough_inx, locals.j) # NoError
    /\ cpc' = "error"
    /\ raised' = WidthError(func, locals.trough_inx, locals.j)
    /\ UNCHANGED <<func, params, locals, returned>>
    /\ UNCHANGED <<peakVars, dynVars, eventVars>>

\* one pass of the loop over the peaks: widths[j] = ti1 - ti0, and for
\* peak_size_width() peaks[j, 2] = data[pi] - baseval, peaks[j, 3] = ti1 - ti0
PeakWidthLoop ==
    /\ func \in WidthFunctions
    /\ cpc = "widths"
    /\ locals.j < Len(params.peak_indices)
    /\ WidthError(func, locals.trough_inx, locals.j) = NoError
    /\ \E sw \in SizeWidths(params, locals.trough_inx, locals.j) :
           locals' = [locals EXCEPT
                         !.j = @ + 1,
                         !.widths[locals.j + 1] = sw.width,
                         !.peaks[locals.j + 1][3] = sw.size,
                         !.peaks[locals.j + 1][4] = sw.width]
    /\ UNCHANGED <<func, params, cpc, returned, raised>>
    /\ UNCHANGED <<peakVars, dynVars, eventVars>>

\* return widths, or return peaks
PeakWidthReturn ==
    /\ func \in WidthFunctions
    /\ cpc = "widths"
    /\ locals.j = Len(params.peak_indices)
    /\ cpc' = "done"
    /\ returned' = IF func = "peak_width" THEN locals.widths
                   ELSE locals.peaks
    /\ UNCHANGED <<func, params, locals, raised>>
    /\ UNCHANGED <<peakVars, dynVars, eventVars>>

NextWidth ==
    \/ PeakWidthEmpty
    \/ PeakWidthRaise
    \/ PeakWidthEnter
    \/ PeakWidthLoopRaise
    \/ PeakWidthLoop
    \/ PeakWidthReturn

SpecWidth == InitWidth /\ [][NextWidth]_vars

----------------------------------------------------------------------------
(* Properties of the entry of peak_width() and peak_size_width(). *)

\* C18: peak_width() and peak_size_width() end with a ValueError for every
\* base that is not one of left, right, min, max, mean, closest, whatever
\* the other arguments are, empty peak_indices included.
C18_InvalidBaseRaises ==
    (func \in WidthFunctions /\ params.base \notin Bases /\ cpc # "call")
        => cpc = "error" /\ raised.type = "ValueError"

\* d is zero except for the symmetric triangle with its apex at index c
\* that reaches zero m samples to each side of the apex, inside the data
SymmetricPulse(d, c, m) ==
    /\ 0 <= c - m /\ c + m <= Len(d) - 1
    /\ At(d, c) > 0
    /\ \A k \in 0..(Len(d) - 1) :
           m * At(d, k) = Max(0, At(d, c) * (m - Abs(k - c)))

\* the step of a uniformly sampled time of two samples or more
SampleStep(time) == At(time, 1) - At(time, 0)

\* a call of peak_width() for a symmetric pulse of a width of m samples at
\* half of its height, with the peak detect_peaks() returns and no trough
PulseWidthCall(c, m) ==
    /\ func = "peak_width"
    /\ SymmetricPulse(params.data, c, m)
    /\ params.time = Uniform(Len(params.data), SampleStep(params.time))
    /\ params.trough_indices = <<>>
    /\ \E thr \in 1..At(params.data, c) :
           params.peak_indices = detect_peaks_fixed(params.data, thr)[1]
    /\ params.peak_frac = <<1, 2>>
    /\ params.base \in Bases

\* C23: for a zero-baseline signal with one symmetric triangular pulse whose
\* width at half of its apex height is W samples, the time t[k] = k*dt, the
\* peak found by detect_peaks and an empty trough list, peak_width with
\* peak_frac = 0.5 returns the width W*dt for each of the six bases.
C23_WidthOfPulse ==
    \A c \in 0..(MaxLen - 1) : \A m \in 1..MaxLen :
        (cpc # "call" /\ PulseWidthCall(c, m)) =>
            (cpc = "done" =>
                returned = <<Whole(m * SampleStep(params.time))>>)
            /\ cpc # "error"

C23_Witness ==
    /\ Done("peak_width")
    /\ PulseWidthCall(2, 2)
    /\ SampleStep(params.time) = 2
    /\ params.base = "mean"
    /\ returned = <<Whole(4)>>

\* the peaks and troughs of the call are the ones detect_peaks() returns
\* for the data of the call and a positive scalar threshold
Detected(a) ==
    /\ Len(a.data) > 0
    /\ \E thr \in 1..(MaxHalfWidth * MaxSlope) :
           <<a.peak_indices, a.trough_indices>>
               = detect_peaks_fixed(a.data, thr)

\* C30: when peak_width and peak_size_width get the peaks and troughs that
\* detect_peaks returned for the same data, the trough list after the
\* synthesis of the boundary troughs has at least len(peaks)+1 entries and
\* brackets every peak: trough[j] <= peak[j] <= trough[j+1] with
\* 0 <= trough[j] and trough[j+1] <= len(data)-1, so that the loop ends
\* without an index out of range.
C30_TroughsBracketPeaks ==
    (func \in WidthFunctions /\ cpc \in {"widths", "done", "error"}
     /\ Len(params.peak_indices) > 0 /\ params.base \in Bases
     /\ Detected(params)) =>
        /\ cpc # "error"
        /\ Len(locals.trough_inx) >= Len(params.peak_indices) + 1
        /\ \A j \in 0..(Len(params.peak_indices) - 1) :
               /\ 0 <= At(locals.trough_inx, j)
               /\ At(locals.trough_inx, j) <= At(params.peak_indices, j)
               /\ At(params.peak_indices, j) <= At(locals.trough_inx, j + 1)
               /\ At(locals.trough_inx, j + 1) <= Len(params.data) - 1

C30_Witness ==
    /\ Done("peak_size_width")
    /\ Detected(params)
    /\ Len(params.peak_indices) = 2
    /\ Len(params.trough_indices) = 1
    /\ Len(locals.trough_inx) = 3

\* the call that C27 is about: no time array, no evaluators, and a
\* threshold that cannot decay
FixedThresholdCall ==
    /\ dpc = "done"
    /\ Len(args.data) > 0
    /\ args.time = None
    /\ ~args.check_peak_func /\ ~args.check_trough_func
    /\ args.min_thresh = args.threshold
    /\ args.threshold[2] = 1

\* all sums and differences of a sample and the threshold are exact floats
ExactSums ==
    \A k \in 1..Len(args.data) :
        args.data[k] + args.threshold[1] < Huge \div 2

ScansAgree ==
    <<dyn.peaks_list, dyn.troughs_list>>
        = detect_peaks_fixed(args.data, args.threshold[1])

\* C27 as stated: with no time array and no evaluators,
\* detect_dynamic_peaks(data, threshold, min_thresh = threshold, tau)
\* returns, for every non-empty data, every threshold > 0 and every tau > 0,
\* exactly the peak and trough index lists of detect_peaks(data, threshold).
C27_AsStated == FixedThresholdCall => ScansAgree

\* C27: with no time array and no evaluators,
\* detect_dynamic_peaks(data, threshold, min_thresh = threshold, tau)
\* returns exactly the peak and trough index lists of
\* detect_peaks(data, threshold) for non-empty data, threshold > 0 and
\* tau > 0 whenever the sums and differences of the samples and the
\* threshold are exact in floating point.
C27_ExactScansAgree == (FixedThresholdCall /\ ExactSums) => ScansAgree

C27_Witness ==
    /\ FixedThresholdCall
    /\ ExactSums
    /\ ScansAgree
    /\ Len(dyn.peaks_list) > 0
    /\ args.tau = <<1, 2>>

----------------------------------------------------------------------------
(* The threshold estimators std_threshold(), median_std_threshold(),       *)
(* hist_threshold(), minmax_threshold() and percentile_threshold().  A     *)
(* threshold is a number, nan, or, where it is a root or an interpolation  *)
(* of the samples, the term that names the estimate and its samples.       *)

MaxWin == 4         \* windows are 0..MaxWin samples long
MinWinSize == 10    \* the shortest window of median_std_threshold()

Number(n) == [kind |-> "number", val |-> n]

NotANumber == [kind |-> "nan"]

Term(name, samples, thresh_fac) ==
    [kind |-> name, of |-> samples, thresh_fac |-> thresh_fac]

\* np.max(w) - np.min(w) of a non-empty array
Spread(w) ==
    (CHOOSE x \in Range(w) : \A y \in Range(w) : y <= x)
        - (CHOOSE x \in Range(w) : \A y \in Range(w) : x <= y)

\* np.std(w, ddof=ddof) * thresh_fac: nan (with a warning) for an array of
\* no more than ddof samples
StdEstimate(w, ddof, thresh_fac) ==
    IF Len(w) <= ddof THEN NotANumber
    ELSE Term(IF ddof = 1 THEN "std1" ELSE "std0", w, thresh_fac)

\* std_threshold() without a window
std_scalar(w, thresh_fac) == Return(StdEstimate(w, 1, thresh_fac))

\* minmax_threshold() without a window: np.max() of an empty array raises
minmax_scalar(w, thresh_fac) ==
    IF Len(w) = 0 THEN Fail("ValueError", 968)
    ELSE Return(Number(Spread(w) * thresh_fac))

\* hist_threshold() without a window, the threshold and the center: samples
\* without contrast, maxd = mind or maxd + mind = 0, fall back on np.std()
hist_scalar(w, thresh_fac) ==
    IF Len(w) = 0 THEN Fail("ValueError", 912)
    ELSE IF Spread(w) = 0
    THEN Return(<<StdEstimate(w, 0, thresh_fac), Term("mean", w, 1)>>)
    ELSE Return(<<Term("hist", w, thresh_fac), Term("center", w, 1)>>)

\* percentile_threshold() without a window: np.percentile() of an empty
\* array is nan in some versions of numpy and raises an IndexError in others
percentile_scalar(w, thresh_fac, percentile) ==
    IF percentile = 0 THEN {minmax_scalar(w, thresh_fac)}
    ELSE IF Len(w) = 0 THEN {Return(NotANumber), Fail("IndexError", 1035)}
    ELSE {Return(Term("percentile", w, thresh_fac))}

\* the estimate of one window of samples, or of all samples
Estimates(name, w, thresh_fac, percentile) ==
    IF name = "std_threshold" THEN {std_scalar(w, thresh_fac)}
    ELSE IF name = "minmax_threshold" THEN {minmax_scalar(w, thresh_fac)}
    ELSE IF name = "hist_threshold" THEN {hist_scalar(w, thresh_fac)}
    ELSE percentile_scalar(w, thresh_fac, percentile)

\* range(0, stop, step) for step > 0
PyRange(stop, step) == {i \in 0..(stop - 1) : i % step = 0}

\* median_std_threshold(): the starts of the snippets
SnippetStarts(d, win_size_indices, n_snippets) ==
    LET w == Max(win_size_indices, MinWinSize)
        step == Max(Len(d) \div n_snippets, w \div 2)
    IN  PyRange(Len(d) - w, step)

\* median_std_threshold(): the snippets with stds > 0, those that are not
\* constant
PositiveStds(d, win_size_indices, n_snippets) ==
    {i \in SnippetStarts(d, win_size_indices, n_snippets) :
        Spread(Slice(d, i, i + Max(win_size_indices, MinWinSize))) > 0}

\* median_std_threshold(): the median of no stds is nan in Python; what the
\* code compiled by numba does with it is not defined
median_std_threshold(d, win_size_indices, n_snippets, thresh_fac) ==
    IF PositiveStds(d, win_size_indices, n_snippets) = {}
    THEN {Return(NotANumber), Fail("ValueError", 858)}
    ELSE {Return([kind |-> "median_std",
                  of |-> {Slice(d, i, i + Max(win_size_indices, MinWinSize)) :
                           i \in PositiveStds(d, win_size_indices,
                                              n_snippets)},
                  thresh_fac |-> thresh_fac])}

\* WindowStep handing on a step of at least one sample
WindowStep_AtLeastOne(win_size_indices) == Max(win_size_indices \div 2, 1)

\* win_size_indices//2, the step from window to window
WindowStep(win_size_indices) == win_size_indices \div 2

\* Assign with only the first half of the window written
Assign_FirstHalf(thr, inx0, inx1, value) ==
    [k \in 1..Len(thr) |->
        IF inx0 < k /\ k <= inx0 + (inx1 - inx0) \div 2
        THEN value ELSE thr[k]]

\* threshold[inx0:inx1] = value
Assign(thr, inx0, inx1, value) ==
    [k \in 1..Len(thr) |-> IF inx0 < k /\ k <= inx1 THEN value ELSE thr[k]]

----------------------------------------------------------------------------
(* The call of a threshold estimator as a state machine. *)

WindowedEstimators ==
    {"std_threshold", "hist_threshold", "minmax_threshold",
     "percentile_threshold"}

\* no window (samplerate or win_size is None), or int(win_size*samplerate)
Windows == {None} \cup {Some(w) : w \in 0..MaxWin}

Factors == {1, 2}

\* signals long enough for a snippet of median_std_threshold()
LongSignals == {Zeros(MinWinSize) \o d : d \in SeqsUpTo(0..MaxLevel, 2)}

\* signals of six to seven snippets of samples that alternate
SnippetSignals ==
    {[k \in 1..n |-> k % 2] : n \in (6 * MinWinSize)..(7 * MinWinSize + 2)}

InitEstimator ==
    /\ \/ /\ func \in WindowedEstimators \ {"percentile_threshold"}
          /\ params \in [data : Samples, window : Windows,
                         thresh_fac : Factors]
       \/ /\ func = "percentile_threshold"
          /\ params \in [data : Samples, window : Windows,
                         thresh_fac : Factors, percentile : {0, 1}]
       \/ /\ func = "median_std_threshold"
          /\ params \in [data : Samples \cup LongSignals \cup SnippetSignals,
                         window : Windows \ {None},
                         thresh_fac : Factors, n_snippets : {1, 12, 1000}]
    /\ cpc = "call"
    /\ locals = <<>>
    /\ returned = <<>>
    /\ raised = NoError
    /\ PeaksNotCalled
    /\ DynNotCalled
    /\ EventsNotCalled

\* percentile_threshold() hands a percentile of 0 on to minmax_threshold()
Estimator ==
    IF func = "percentile_threshold" /\ params.percentile = 0
    THEN "minmax_threshold" ELSE func

Percentile == IF func = "percentile_threshold" THEN params.percentile ELSE 1

\* the line of  for inx0 in range(...)
RangeLine ==
    CASE Estimator = "std_threshold" -> 814
      [] Estimator = "hist_threshold" -> 903
      [] Estimator = "minmax_threshold" -> 960
      [] OTHER -> 1028

\* no window: one estimate of all the data
EstimateAll ==
    /\ func \in WindowedEstimators
    /\ params.window = None
    /\ \E r \in Estimates(Estimator, params.data, params.thresh_fac,
                          Percentile) : Finish(r)

EstimateMedianStd ==
    /\ func = "median_std_threshold"
    /\ \E r \in median_std_threshold(params.data, Value(params.window),
                                     params.n_snippets, params.thresh_fac) :
           Finish(r)

\* range() with a step of 0 raises a ValueError
WindowsRaise ==
    /\ func \in WindowedEstimators
    /\ params.window # None
    /\ WindowStep(Value(params.window)) = 0
    /\ Finish(Fail("ValueError", RangeLine))

\* threshold = np.zeros(len(data)), and the loop over the windows begins
WindowsEnter ==
    /\ func \in WindowedEstimators
    /\ cpc = "call"
    /\ params.window # None
    /\ WindowStep(Value(params.window)) > 0
    /\ cpc' = "windows"
    /\ locals' = [threshold |-> [k \in 1..Len(params.data) |-> Number(0)],
                  centers |-> [k \in 1..Len(params.data) |-> Number(0)],
                  inx0 |-> 0]
    /\ UNCHANGED <<func, params, returned, raised>>
    /\ UNCHANGED <<peakVars, dynVars, eventVars>>

\* one iteration of  for inx0 in range(0, len(data) - step, step)
EstimateWindow ==
    /\ func \in WindowedEstimators
    /\ cpc = "windows"
    /\ locals.inx0 < Len(params.data) - WindowStep(Value(params.window))
    /\ LET inx0 == locals.inx0
           inx1 == inx0 + Value(params.window)
       IN  \E r \in Estimates(Estimator, Slice(params.data, inx0, inx1),
                              params.thresh_fac, Percentile) :
               IF r.raised # NoError
               THEN /\ cpc' = "error"
                    /\ raised' = r.raised
                    /\ UNCHANGED locals
               ELSE /\ locals' =
                        [threshold |->
                             Assign(locals.threshold, inx0, inx1,
                                    IF Estimator = "hist_threshold"
                                    THEN r.value[1] ELSE r.value),
                         centers |->
                             IF Estimator = "hist_threshold"
                             THEN Assign(locals.centers, inx0, inx1,
                                         r.value[2])
                             ELSE locals.centers,
                         inx0 |-> inx0 + WindowStep(Value(params.window))]
                    /\ UNCHANGED <<cpc, raised>>
    /\ UNCHANGED <<func, params, returned>>
    /\ UNCHANGED <<peakVars, dynVars, eventVars>>

\* the loop is exhausted: return threshold
WindowsReturn ==
    /\ func \in WindowedEstimators
    /\ cpc = "windows"
    /\ locals.inx0 >= Len(params.data) - WindowStep(Value(params.window))
    /\ cpc' = "done"
    /\ returned' = IF Estimator = "hist_threshold"
                   THEN <<locals.threshold, locals.centers>>
                   ELSE locals.threshold
    /\ UNCHANGED <<func, params, locals, raised>>
    /\ UNCHANGED <<peakVars, dynVars, eventVars>>

NextEstimator ==
    \/ EstimateAll
    \/ EstimateMedianStd
    \/ WindowsRaise
    \/ WindowsEnter
    \/ EstimateWindow
    \/ WindowsReturn

SpecEstimator == InitEstimator /\ [][NextEstimator]_vars

----------------------------------------------------------------------------
(* Properties of the threshold estimators. *)

Estimators == WindowedEstimators \cup {"median_std_threshold"}

Finished == cpc \in {"done", "error"}

\* the number of samples of the windows the estimator works with
ResolvedWindow ==
    IF func = "median_std_threshold"
    THEN Max(Value(params.window), MinWinSize)
    ELSE Value(params.window)

NoSignal == Len(params.data) = 0

TooShortWindow == params.window # None /\ ResolvedWindow < 2

\* C19 as stated: every estimator ends with an error when the signal is
\* empty or the window size resolves to fewer than 2 samples.
C19_AsStated ==
    (func \in Estimators /\ Finished /\ (NoSignal \/ TooShortWindow))
        => cpc = "error"

\* C19: std_threshold(), hist_threshold(), minmax_threshold() and
\* percentile_threshold() end with a ValueError when they are called with a
\* window that resolves to fewer than 2 samples; without a window
\* minmax_threshold() and hist_threshold() end with a ValueError for an
\* empty signal, while std_threshold() returns nan for it; and with a
\* window of 2 or more samples an empty signal gives an empty array.
C19_ErrorsOfEstimators ==
    (func \in WindowedEstimators /\ Finished) =>
        /\ TooShortWindow => cpc = "error" /\ raised.type = "ValueError"
        /\ (NoSignal /\ params.window = None
            /\ Estimator \in {"minmax_threshold", "hist_threshold"})
               => cpc = "error" /\ raised.type = "ValueError"
        /\ (NoSignal /\ params.window = None /\ func = "std_threshold")
               => cpc = "done" /\ returned = NotANumber
        /\ (NoSignal /\ params.window # None /\ ~TooShortWindow)
               => /\ cpc = "done"
                  /\ returned = IF Estimator = "hist_threshold"
                                THEN <<<<>>, <<>>>> ELSE <<>>

C19_Witness ==
    /\ func = "hist_threshold"
    /\ TooShortWindow
    /\ Len(params.data) = MaxSamples
    /\ cpc = "error"
    /\ raised = Raise("ValueError", 903)

\* the starts inx0 of the windows the loop visits
WindowStarts ==
    PyRange(Len(params.data) - WindowStep(Value(params.window)),
            WindowStep(Value(params.window)))

\* the windows that contain sample k
Covering(k) == {i \in WindowStarts : i <= k /\ k < i + Value(params.window)}

\* what the estimator makes of the samples of the window that starts at i
WindowEstimate(i) ==
    LET r == CHOOSE r \in Estimates(Estimator,
                                    Slice(params.data, i,
                                          i + Value(params.window)),
                                    params.thresh_fac, Percentile) : TRUE
    IN  IF Estimator = "hist_threshold" THEN r.value[1] ELSE r.value

\* the threshold array a windowed call has returned
ReturnedThreshold ==
    IF Estimator = "hist_threshold" THEN returned[1] ELSE returned

WindowedDone ==
    /\ func \in WindowedEstimators
    /\ params.window # None
    /\ cpc = "done"

\* C20 as stated: threshold[k] equals the estimate of window i for every
\* window i and every sample k of that window (minmax_threshold(), whose
\* estimates are numbers).
C20_AsStated ==
    (WindowedDone /\ Estimator = "minmax_threshold") =>
        \A k \in 0..(Len(params.data) - 1) :
            \A i \in Covering(k) :
                At(ReturnedThreshold, k) = WindowEstimate(i)

\* C20: in windowed mode threshold[k] equals the estimate of the last of
\* the half-overlapping windows that contain sample k; a signal of no more
\* than w//2 samples has no window and its threshold stays 0.
C20_LastWindowWins ==
    WindowedDone =>
        /\ Len(ReturnedThreshold) = Len(params.data)
        /\ \A k \in 0..(Len(params.data) - 1) :
               IF Covering(k) = {}
               THEN /\ At(ReturnedThreshold, k) = Number(0)
                    /\ Len(params.data)
                           <= WindowStep(Value(params.window))
               ELSE \E i \in Covering(k) :
                        /\ \A j \in Covering(k) : j <= i
                        /\ At(ReturnedThreshold, k) = WindowEstimate(i)

C20_Witness ==
    /\ WindowedDone
    /\ func = "minmax_threshold"
    /\ Cardinality(WindowStarts) > 1
    /\ \E k \in 0..(Len(params.data) - 1) :
           \E i \in Covering(k) :
               At(ReturnedThreshold, k) # WindowEstimate(i)

----------------------------------------------------------------------------
(* The order of the crossings of threshold_crossings(). *)

\* C29: for every data and every scalar threshold or threshold per sample
\* as long as the data, the up_indices and down_indices returned by
\* threshold_crossings are disjoint, each strictly ascending, and strictly
\* alternate in index order, so that their counts differ by at most one.
C29_CrossingsAlternate ==
    Done("threshold_crossings") =>
        /\ StrictlyAscending(returned[1])
        /\ StrictlyAscending(returned[2])
        /\ Alternate(returned[1], returned[2])

C29_Witness ==
    /\ Done("threshold_crossings")
    /\ ~isscalar(params.threshold)
    /\ Range(params.threshold.val) = {0, 1}
    /\ Len(returned[1]) = 2
    /\ Len(returned[2]) = 1

----------------------------------------------------------------------------
(* threshold_crossing_times(): the times of the crossings that              *)
(* threshold_crossings() found.                                            *)

\* the sets of time sequences np.interp can give for the crossings at the
\* indices: sign is 1 for  np.interp(threshold, data[inx:inx+2], ...)  and
\* -1 for  np.interp(-threshold, -data[inx:inx+2], ...)
RECURSIVE InterpolatedTimes(_, _, _, _, _)
InterpolatedTimes(time, d, thr, indices, sign) ==
    IF Len(indices) = 0 THEN {<<>>}
    ELSE LET inx == Head(indices)
         IN  {<<t>> \o rest :
                 t \in Interp(Whole(sign * thr),
                              <<Whole(sign * At(d, inx)),
                                Whole(sign * At(d, inx + 1))>>,
                              Points(time, inx, inx + 1)),
                 rest \in InterpolatedTimes(time, d, thr, Tail(indices),
                                            sign)}

\* for an array of thresholds np.interp returns an array as long as the
\* thresholds, which cannot be assigned to up_times[k] or down_times[k]
\* unless it has one element
threshold_crossing_times(time, d, thr, up_indices, down_indices) ==
    IF ~isscalar(thr) /\ Len(thr.val) # 1
       /\ Len(up_indices) + Len(down_indices) > 0
    THEN {Fail("ValueError", IF Len(up_indices) > 0 THEN 531 ELSE 534)}
    ELSE LET x == IF isscalar(thr) THEN thr.val ELSE At(thr.val, 0)
         IN  {Return(<<up_times, down_times>>) :
                 up_times \in InterpolatedTimes(time, d, x, up_indices, 1),
                 down_times \in
                     InterpolatedTimes(time, d, x, down_indices, -1)}

\* strictly increasing times of n samples
TimeGrids(n) ==
    {Uniform(n, dt) : dt \in TimeSteps}
        \cup {[k \in 1..n |-> (k - 1) * (k - 1)]}

\* the crossing indices are the ones of threshold_crossings() for the same
\* data and threshold, the data are not empty
CrossingTimeCall(time, d, thr) ==
    LET crossings == threshold_crossings(d, thr).value
    IN  [time |-> time, data |-> d, threshold |-> thr,
         up_indices |-> crossings[1], down_indices |-> crossings[2]]

CrossingTimeCalls(d) ==
    {CrossingTimeCall(t, d, thr) :
        t \in TimeGrids(Len(d)),
        thr \in {Scalar(v) : v \in 0..MaxLevel}
                    \cup {Array(x) : x \in [1..Len(d) -> 0..MaxLevel]}}

InitTimes ==
    /\ func = "threshold_crossing_times"
    /\ \E d \in Samples \ {<<>>} : params \in CrossingTimeCalls(d)
    /\ cpc = "call"
    /\ locals = <<>>
    /\ returned = <<>>
    /\ raised = NoError
    /\ PeaksNotCalled
    /\ DynNotCalled
    /\ EventsNotCalled

\* up_times[k] = np.interp(...) or down_times[k] = np.interp(...) raises
ThresholdCrossingTimesRaise ==
    /\ func = "threshold_crossing_times"
    /\ \E r \in threshold_crossing_times(params.time, params.data,
                                         params.threshold, params.up_indices,
                                         params.down_indices) :
           r.raised # NoError /\ Finish(r)

\* up_times, down_times = threshold_crossing_times(time, data, threshold,
\*                                                 up_indices, down_indices)
ThresholdCrossingTimes ==
    /\ func = "threshold_crossing_times"
    /\ \E r \in threshold_crossing_times(params.time, params.data,
                                         params.threshold, params.up_indices,
                                         params.down_indices) :
           r.raised = NoError /\ Finish(r)

NextTimes ==
    \/ ThresholdCrossingTimesRaise
    \/ ThresholdCrossingTimes

SpecTimes == InitTimes /\ [][NextTimes]_vars

\* one time for each index, between the two samples around the crossing
TimesBetween(times, indices) ==
    /\ Len(times) = Len(indices)
    /\ \A k \in 1..Len(indices) :
           /\ FLeq(Whole(At(params.time, indices[k])), times[k])
           /\ FLeq(times[k], Whole(At(params.time, indices[k] + 1)))

\* C26: for the crossing indices threshold_crossings gives for the same data
\* and threshold and a strictly increasing time, threshold_crossing_times
\* returns exactly one time per up index and one per down index, each with
\* time[k] <= t <= time[k+1], for a scalar threshold as well as for a
\* threshold per sample.
C26_TimesBetweenSamples ==
    (func = "threshold_crossing_times" /\ cpc # "call") =>
        /\ cpc = "done"
        /\ TimesBetween(returned[1], params.up_indices)
        /\ TimesBetween(returned[2], params.down_indices)

----------------------------------------------------------------------------
(* The snippets of median_std_threshold(). *)

\* C25: median_std_threshold evaluates the standard deviation on at most
\* n_snippets windows: the number of starts range(0, len(data) - w, step),
\* with w = max(int(win_size*samplerate), 10) and
\* step = max(len(data)//n_snippets, w//2), is <= n_snippets, and every
\* window has at least 10 samples.
C25_AtMostNSnippets ==
    (func = "median_std_threshold" /\ cpc # "call") =>
        LET starts == SnippetStarts(params.data, Value(params.window),
                                    params.n_snippets)
        IN  /\ Cardinality(starts) <= params.n_snippets
            /\ \A i \in starts :
                   Len(Slice(params.data, i,
                             i + Max(Value(params.window), MinWinSize)))
                       >= 10

----------------------------------------------------------------------------
(* The indices detect_dynamic_peaks() hands to its evaluators. *)

\* C24: whenever detect_dynamic_peaks invokes check_peak_func the indices it
\* passes satisfy min_inx <= peak_inx <= index, and whenever it invokes
\* check_trough_func they satisfy max_inx <= trough_inx <= index, for every
\* data and every valid threshold, min_thresh and tau.
C24_EvaluatorIndicesOrdered ==
    call.func \in {"check_peak_func", "check_trough_func"} =>
        call.prev_inx <= call.event_inx /\ call.event_inx <= call.index

----------------------------------------------------------------------------
(* detect_peaks() on a single pulse. *)

\* d is zero except for one pulse that rises strictly from zero at index l to
\* its apex at index c and falls strictly back to zero at index r
Triangular(d, l, c, r) ==
    /\ 0 <= l /\ l < c /\ c < r /\ r <= Len(d) - 1
    /\ \A k \in 0..l : At(d, k) = 0
    /\ \A k \in r..(Len(d) - 1) : At(d, k) = 0
    /\ \A k \in l..(c - 1) : At(d, k) < At(d, k + 1)
    /\ \A k \in c..(r - 1) : At(d, k) > At(d, k + 1)

\* the indices of the apex of a single pulse in d
Apexes(d) ==
    {c \in 0..(Len(d) - 1) :
        \E l \in {k \in 0..(c - 1) : At(d, k) = 0 /\ At(d, k + 1) > 0} :
            \E r \in {k \in (c + 1)..(Len(d) - 1) :
                         At(d, k) = 0 /\ At(d, k - 1) > 0} :
                Triangular(d, l, c, r)}

\* C22: for a signal that is zero except for a single triangular pulse rising
\* strictly to an apex of height H at index c and falling strictly back to
\* zero, and a scalar threshold with 0 < threshold <= H, detect_peaks returns
\* peaks = [c] and no troughs; 1000 samples with an apex of 10 at index 500
\* and a threshold of 5 give peaks = [500].
C22_SinglePulse ==
    /\ (Returned /\ isscalar(threshold) /\ threshold.val > 0) =>
           \A c \in Apexes(data) :
               threshold.val <= At(data, c) =>
                   scan.peaks = <<c>> /\ scan.troughs = <<>>
    /\ (Returned /\ data = PulseScenario.data) =>
           scan.peaks = <<500>> /\ scan.troughs = <<>>

C22_Witness ==
    /\ Returned
    /\ data = PulseScenario.data
    /\ threshold = Scalar(5)
    /\ 500 \in Apexes(data)
    /\ scan.peaks = <<500>>


----------------------------------------------------------------------------
(* The peaks and troughs of detect_peaks() as extrema of the data. *)

\* the last index of others before inx, or 0 if there is none
Preceding(others, inx) ==
    IF \E o \in others : o < inx
    THEN CHOOSE o \in others : o < inx /\ \A x \in others : x < inx => x <= o
    ELSE 0

\* the first index of others after inx, or the last index of the data
Following(others, inx) ==
    IF \E o \in others : o > inx
    THEN CHOOSE o \in others : o > inx /\ \A x \in others : x > inx => o <= x
    ELSE Len(data) - 1

\* inx is the first index of a..b where the data are largest
FirstMaximum(inx, a, b) ==
    /\ \A k \in a..b : At(data, inx) >= At(data, k)
    /\ \A k \in a..(inx - 1) : At(data, k) < At(data, inx)

\* inx is the first index of a..b where the data are smallest
FirstMinimum(inx, a, b) ==
    /\ \A k \in a..b : At(data, inx) <= At(data, k)
    /\ \A k \in a..(inx - 1) : At(data, k) > At(data, inx)

----------------------------------------------------------------------------
(* snippets(): the data around each index. *)

MaxReach == 2      \* start is -MaxReach..0 and stop is 0..MaxReach
MaxIndices == 2    \* longest list of indices

\* (indices >= -start) & (indices < len(data) - stop)
SnippetMask(d, indices, start, stop) ==
    [k \in 1..Len(indices) |->
        /\ indices[k] >= -start
        /\ indices[k] < Len(d) - stop]

\* snippet_data[k] = data[idx+start:idx+stop] for each idx of the masked
\* indices; a row of another length than stop-start cannot be assigned
snippets(d, indices, start, stop) ==
    LET idxs == Masked(indices, SnippetMask(d, indices, start, stop))
        snippet_data == [k \in 1..Len(idxs) |->
                            Slice(d, idxs[k] + start, idxs[k] + stop)]
    IN  IF \E k \in 1..Len(idxs) :
               Len(snippet_data[k]) \notin {1, stop - start}
        THEN Fail("ValueError", 1060)
        ELSE Return(snippet_data)

\* the signals 0, 1, 2, ... of every length: each sample names its index
Ramps == {[k \in 1..n |-> k - 1] : n \in 0..MaxSamples}

SnippetCalls ==
    [data : Ramps,
     indices : SeqsUpTo(0..MaxSamples, MaxIndices),
     start : (-MaxReach)..0,
     stop : 0..MaxReach]

InitSnippets ==
    /\ func = "snippets"
    /\ params \in SnippetCalls
    /\ cpc = "call"
    /\ locals = <<>>
    /\ returned = <<>>
    /\ raised = NoError
    /\ PeaksNotCalled
    /\ DynNotCalled
    /\ EventsNotCalled

\* snippet_data = snippets(data, indices, start, stop)
Snippets ==
    /\ func = "snippets"
    /\ Finish(snippets(params.data, params.indices,
                       params.start, params.stop))

NextSnippets == Snippets

SpecSnippets == InitSnippets /\ [][NextSnippets]_vars

\* the window of idx lies inside the data
FullWindow(idx) ==
    /\ 0 <= idx + params.start
    /\ idx + params.stop <= Len(params.data)

\* C21: snippets returns one row for an index if and only if its full window
\* [idx+start, idx+stop) lies inside [0, len(data)): the rows are, in the
\* order of the indices, data[idx+start:idx+stop] of exactly these indices,
\* each of stop-start samples, and the call ends without an error.
C21_RowsOfFullWindows ==
    (func = "snippets" /\ cpc # "call") =>
        LET kept == Masked(params.indices,
                           [k \in 1..Len(params.indices) |->
                               FullWindow(params.indices[k])])
        IN  /\ cpc = "done"
            /\ Len(returned) = Len(kept)
            /\ \A k \in 1..Len(kept) :
                   /\ Len(returned[k]) = params.stop - params.start
                   /\ returned[k] = [j \in 1..(params.stop - params.start) |->
                                        At(params.data,
                                           kept[k] + params.start + j - 1)]

====
